---- MODULE Spec2Model ----
(***************************************************************************)
(* Presence service of Orbit Messenger: the Redis-backed session store     *)
(* (presenceRepo), the presence usecase (PresenceUsecase), the HTTP read   *)
(* API and the stale-session cleanup.                                      *)
(*                                                                         *)
(* Time is counted in seconds.  A Redis key carries its expiry instant;    *)
(* the clock action removes the keys whose expiry has passed, as Redis     *)
(* does.  Stored values are JSON documents: Marshal wraps a value,         *)
(* Unmarshal fails on a document that is not valid JSON.                   *)
(***************************************************************************)
EXTENDS Integers, Sequences, FiniteSets, TLC

VARIABLES
    redis,   \* the three key spaces of the Redis instance behind presenceRepo
    now,     \* wall clock in seconds (time.Now())
    ticks,   \* number of clock advances so far
    nops,    \* number of calls made so far
    last,    \* the most recent call and what it returned
    prev,    \* the connect and disconnect calls that came right before it
    ever,    \* the users a session was ever created for, and the users
             \* a status was ever written for by a status update
    mqtt,    \* the MQTT side: the messages the service published that the
             \* broker has not delivered yet, the last message the broker
             \* handed to the service, and when each client last signalled
    reaper,  \* the goroutine of StartCleanupRoutine: where it stands, the
             \* context of main, the pending tick and the run in progress
    race,    \* a connect and a disconnect handler running side by side,
             \* each at one of its Redis commands
    messages, \* message service: the rows of the table messages, the next
             \* uuid, and how often each (conversation, dedupe key) came in
    media,   \* media service: the row of one attachment and the requests
             \* and the scan goroutine working on it
    chat     \* chat API: the conversations and their participants

vars == <<redis, now, ticks, nops, last, prev, ever, mqtt, reaper, race,
          messages, media, chat>>

----------------------------------------------------------------------------
(* Bounds of the model *)

MaxOps == 4
MaxTicks == 1

Users == {"u1", "u2"}
Clients == {"c1", "c2", "c3"}
CustomTexts == {"", "brb"}

----------------------------------------------------------------------------
(* Program constants *)

StatusOnline == "online"
StatusAway == "away"
StatusOffline == "offline"
StatusDoNotDisturb == "dnd"

validStatuses == {StatusOnline, StatusAway, StatusOffline, StatusDoNotDisturb}

\* a status string outside the enumeration, as a client may send it
OtherStatus == "busy"

ErrSessionNotFound == "session not found"
ErrUserNotFound == "user not found"
ErrStore == "store unavailable"
ErrJSON == "invalid json"
ErrCanceled == "context canceled"
NoErr == "nil"

heartbeatInterval == 30
offlineTimeout == 60
presenceExpiration == 86400
sessionExpiration == 86400
disconnectedRetention == 3600
MaxBulkUserIDs == 100
cleanupInterval == 300

\* the amounts by which the clock may advance in one step
ClockSteps == {offlineTimeout + 1, disconnectedRetention, sessionExpiration}

----------------------------------------------------------------------------
(* JSON documents *)

Marshal(v) == [valid |-> TRUE, doc |-> v]
Garbage == [valid |-> FALSE]
Unmarshal(d) == IF d.valid THEN [err |-> NoErr, v |-> d.doc] ELSE [err |-> ErrJSON]

\* an optional time (*time.Time): <<>> is nil
Nil == <<>>
At(t) == <<t>>

----------------------------------------------------------------------------
(* Redis commands on one key space: a function from the keys that exist to *)
(* [val, exp]; exp is the instant at which the key disappears.             *)

RedisSet(space, k, v, ttl, t) == (k :> [val |-> v, exp |-> At(t + ttl)]) @@ space

RedisDel(space, k) == [x \in DOMAIN space \ {k} |-> space[x]]

RedisSAdd(space, k, m) ==
    IF k \in DOMAIN space
    THEN [space EXCEPT ![k].val = @ \cup {m}]
    ELSE (k :> [val |-> {m}, exp |-> Nil]) @@ space

RedisExpire(space, k, ttl, t) ==
    IF k \in DOMAIN space THEN [space EXCEPT ![k].exp = At(t + ttl)] ELSE space

RedisSRem(space, k, m) ==
    IF k \notin DOMAIN space THEN space
    ELSE IF space[k].val \ {m} = {} THEN RedisDel(space, k)
    ELSE [space EXCEPT ![k].val = @ \ {m}]

RedisSMembers(space, k) == IF k \in DOMAIN space THEN space[k].val ELSE {}

Live(space, t) == {k \in DOMAIN space : space[k].exp = Nil \/ space[k].exp[1] > t}

RedisPurge(st, t) ==
    [presence |-> [k \in Live(st.presence, t) |-> st.presence[k]],
     session |-> [k \in Live(st.session, t) |-> st.session[k]],
     userSessions |-> [k \in Live(st.userSessions, t) |-> st.userSessions[k]]]

NoKeys == [k \in {} |-> Nil]

EmptyRedis == [presence |-> NoKeys, session |-> NoKeys, userSessions |-> NoKeys]

----------------------------------------------------------------------------
(* presenceRepo: every operation takes the store st and the time t of the  *)
(* call and returns what the Go method returns, with the store it leaves.  *)

DefaultPresence(u, t) ==
    [user |-> u, status |-> StatusOffline, lastSeen |-> t, custom |-> ""]

SetUserPresence(st, p, t) ==
    [st EXCEPT !.presence = RedisSet(@, p.user, Marshal(p), presenceExpiration, t)]

\* as GetUserPresence, but a missing key is reported as an error
GetUserPresence_NotFound(st, u, t) ==
    IF u \notin DOMAIN st.presence
    THEN [err |-> ErrUserNotFound]
    ELSE Unmarshal(st.presence[u].val)

GetUserPresence(st, u, t) ==
    IF u \notin DOMAIN st.presence
    THEN [err |-> NoErr, v |-> DefaultPresence(u, t)]
    ELSE Unmarshal(st.presence[u].val)

\* as GetMultipleUserPresence, but a value that does not parse fails the call
GetMultipleUserPresence_FailsOnCorrupt(st, userIDs, t, failed) ==
    IF Len(userIDs) = 0 THEN [err |-> NoErr, v |-> NoKeys]
    ELSE IF failed THEN [err |-> ErrStore]
    ELSE IF \E i \in 1..Len(userIDs) :
                /\ userIDs[i] \in DOMAIN st.presence
                /\ Unmarshal(st.presence[userIDs[i]].val).err # NoErr
         THEN [err |-> ErrJSON]
    ELSE [err |-> NoErr,
          v |-> [u \in {userIDs[i] : i \in 1..Len(userIDs)} |->
                    IF u \notin DOMAIN st.presence THEN DefaultPresence(u, t)
                    ELSE Unmarshal(st.presence[u].val).v]]

\* one MGET for all the keys; failed: the command itself fails
GetMultipleUserPresence(st, userIDs, t, failed) ==
    IF Len(userIDs) = 0 THEN [err |-> NoErr, v |-> NoKeys]
    ELSE IF failed THEN [err |-> ErrStore]
    ELSE [err |-> NoErr,
          v |-> [u \in {userIDs[i] : i \in 1..Len(userIDs)} |->
                    IF u \notin DOMAIN st.presence THEN DefaultPresence(u, t)
                    ELSE IF Unmarshal(st.presence[u].val).err # NoErr
                         THEN DefaultPresence(u, t)
                    ELSE Unmarshal(st.presence[u].val).v]]

\* as CreateDeviceSession, but the client id is not added to the user's set
CreateDeviceSession_NoIndex(st, s, t) ==
    [st EXCEPT
        !.session = RedisSet(@, s.client, Marshal(s), sessionExpiration, t)]

CreateDeviceSession(st, s, t) ==
    [st EXCEPT
        !.session = RedisSet(@, s.client, Marshal(s), sessionExpiration, t),
        !.userSessions = RedisExpire(RedisSAdd(@, s.user, s.client),
                                     s.user, sessionExpiration, t)]

UpdateDeviceSession(st, s, t) ==
    [st EXCEPT !.session = RedisSet(@, s.client, Marshal(s), sessionExpiration, t)]

\* as GetDeviceSession, but a missing key is not told from a failed command
GetDeviceSession_NoNilCheck(st, c) ==
    IF c \notin DOMAIN st.session
    THEN [err |-> ErrStore]
    ELSE Unmarshal(st.session[c].val)

GetDeviceSession(st, c) ==
    IF c \notin DOMAIN st.session
    THEN [err |-> ErrSessionNotFound]
    ELSE Unmarshal(st.session[c].val)

\* the sessions of the client ids in the user's set; a client id whose
\* record cannot be read is skipped
GetUserDeviceSessions(st, u) ==
    {GetDeviceSession(st, c).v :
        c \in {x \in RedisSMembers(st.userSessions, u) :
                    GetDeviceSession(st, x).err = NoErr}}

DisconnectDeviceSession(st, c, t) ==
    LET got == GetDeviceSession(st, c)
    IN  IF got.err # NoErr THEN [err |-> got.err, st |-> st]
        ELSE [err |-> NoErr,
              st |-> [st EXCEPT
                 !.session = RedisSet(@, c, Marshal([got.v EXCEPT !.disconnectedAt = At(t)]),
                                      disconnectedRetention, t),
                 !.userSessions = RedisSRem(@, got.v.user, c)]]

GetStaleDeviceSessions(st, timeout, t) ==
    {GetDeviceSession(st, c).v :
        c \in {x \in DOMAIN st.session :
                  /\ GetDeviceSession(st, x).err = NoErr
                  /\ GetDeviceSession(st, x).v.disconnectedAt = Nil
                  /\ GetDeviceSession(st, x).v.lastHeartbeat < t - timeout}}

\* the presence sweep for one presence key
SweepUser(st, u, timeout, t) ==
    LET got == GetUserPresence(st, u, t)
        cutoff == t - timeout
        hasActiveSessions ==
            \E s \in GetUserDeviceSessions(st, u) :
                s.disconnectedAt = Nil /\ s.lastHeartbeat > cutoff
    IN  IF got.err # NoErr THEN st
        ELSE IF got.v.lastSeen < cutoff
                /\ ~hasActiveSessions
                /\ got.v.status # StatusOffline
        THEN SetUserPresence(st, [got.v EXCEPT !.status = StatusOffline], t)
        ELSE st

RECURSIVE SweepUsers(_, _, _, _)
SweepUsers(st, us, timeout, t) ==
    IF us = {} THEN st
    ELSE LET u == CHOOSE x \in us : TRUE
         IN  SweepUsers(SweepUser(st, u, timeout, t), us \ {u}, timeout, t)

RepoCleanupStalePresence(st, timeout, t) ==
    SweepUsers(st, DOMAIN st.presence, timeout, t)

----------------------------------------------------------------------------
(* PresenceUsecase *)

HandleClientConnected(st, c, u, t) ==
    LET session == [user |-> u, client |-> c, disconnectedAt |-> Nil,
                    lastHeartbeat |-> t]
        presence == [user |-> u, status |-> StatusOnline, lastSeen |-> t,
                     custom |-> ""]
    IN  [err |-> NoErr,
         st |-> SetUserPresence(CreateDeviceSession(st, session, t), presence, t)]

\* as HandleClientDisconnected, but without the look at the other sessions
HandleClientDisconnected_AlwaysOffline(st, c, t) ==
    LET got == GetDeviceSession(st, c)
        disc == DisconnectDeviceSession(st, c, t)
        presence == [user |-> got.v.user, status |-> StatusOffline,
                     lastSeen |-> t, custom |-> ""]
    IN  IF got.err # NoErr THEN [err |-> got.err, st |-> st]
        ELSE IF disc.err # NoErr THEN [err |-> disc.err, st |-> st]
        ELSE [err |-> NoErr, st |-> SetUserPresence(disc.st, presence, t)]

HandleClientDisconnected(st, c, t) ==
    LET got == GetDeviceSession(st, c)
        disc == DisconnectDeviceSession(st, c, t)
        hasActiveSessions ==
            \E s \in GetUserDeviceSessions(disc.st, got.v.user) :
                s.disconnectedAt = Nil /\ s.client # c
        presence == [user |-> got.v.user, status |-> StatusOffline,
                     lastSeen |-> t, custom |-> ""]
    IN  IF got.err # NoErr THEN [err |-> got.err, st |-> st]
        ELSE IF disc.err # NoErr THEN [err |-> disc.err, st |-> st]
        ELSE IF ~hasActiveSessions
             THEN [err |-> NoErr, st |-> SetUserPresence(disc.st, presence, t)]
        ELSE [err |-> NoErr, st |-> disc.st]

\* as HandlePresenceUpdate, but lastSeen is the time of processing
HandlePresenceUpdate_StampsNow(st, payload, t) ==
    LET update == Unmarshal(payload)
    IN  IF update.err # NoErr THEN [err |-> update.err, st |-> st]
        ELSE [err |-> NoErr,
              st |-> SetUserPresence(st,
                        [user |-> update.v.user, status |-> update.v.status,
                         lastSeen |-> t, custom |-> update.v.custom], t)]

\* payload: a JSON document holding a PresenceUpdate, or garbage
HandlePresenceUpdate(st, payload, t) ==
    LET update == Unmarshal(payload)
    IN  IF update.err # NoErr THEN [err |-> update.err, st |-> st]
        ELSE [err |-> NoErr,
              st |-> SetUserPresence(st,
                        [user |-> update.v.user, status |-> update.v.status,
                         lastSeen |-> update.v.timestamp,
                         custom |-> update.v.custom], t)]

\* as HandleHeartbeat, but the user of the session is set online as well
HandleHeartbeat_SetsOnline(st, payload, t) ==
    LET heartbeat == Unmarshal(payload)
        got == GetDeviceSession(st, heartbeat.v.client)
    IN  IF heartbeat.err # NoErr THEN [err |-> heartbeat.err, st |-> st]
        ELSE IF got.err # NoErr THEN [err |-> got.err, st |-> st]
        ELSE [err |-> NoErr,
              st |-> SetUserPresence(
                        UpdateDeviceSession(st,
                            [got.v EXCEPT !.lastHeartbeat = heartbeat.v.timestamp], t),
                        [user |-> got.v.user, status |-> StatusOnline,
                         lastSeen |-> t, custom |-> ""], t)]

\* payload: a JSON document holding a HeartbeatMessage, or garbage
HandleHeartbeat(st, payload, t) ==
    LET heartbeat == Unmarshal(payload)
        got == GetDeviceSession(st, heartbeat.v.client)
    IN  IF heartbeat.err # NoErr THEN [err |-> heartbeat.err, st |-> st]
        ELSE IF got.err # NoErr THEN [err |-> got.err, st |-> st]
        ELSE [err |-> NoErr,
              st |-> UpdateDeviceSession(st,
                        [got.v EXCEPT !.lastHeartbeat = heartbeat.v.timestamp], t)]

\* as SetUserStatus, but the custom status is left out of the record
SetUserStatus_DropsCustom(st, u, status, custom, t) ==
    [err |-> NoErr,
     st |-> SetUserPresence(st, [user |-> u, status |-> status, lastSeen |-> t,
                                 custom |-> ""], t)]

SetUserStatus(st, u, status, custom, t) ==
    [err |-> NoErr,
     st |-> SetUserPresence(st, [user |-> u, status |-> status, lastSeen |-> t,
                                 custom |-> custom], t)]

\* the loop over the stale sessions, in the order the scan returned them;
\* a session whose disconnect fails is skipped
RECURSIVE DisconnectEach(_, _, _)
DisconnectEach(st, order, t) ==
    IF order = <<>> THEN st
    ELSE DisconnectEach(HandleClientDisconnected(st, Head(order), t).st,
                        Tail(order), t)

CleanupStalePresence(st, order, t) ==
    [err |-> NoErr,
     st |-> RepoCleanupStalePresence(DisconnectEach(st, order, t), offlineTimeout, t)]

\* the orders in which a scan may return a set of keys
ScanOrders(S) ==
    {o \in [1..Cardinality(S) -> S] : \A x \in S : \E i \in 1..Cardinality(S) : o[i] = x}

----------------------------------------------------------------------------
(* MQTT topics.  A topic is the sequence of its pieces: the levels, the    *)
(* "/" between them, and "disconnected" as "dis" followed by "connected",  *)
(* so that a substring test on the topic is a test on sub-sequences.       *)

Slash == "/"
BrokerNode == "emqx@127.0.0.1"

StatusTopic(u) == <<"presence", Slash, u, Slash, "status">>
HeartbeatTopic(u) == <<"presence", Slash, u, Slash, "heartbeat">>
ConnectedTopic(c) ==
    <<"$SYS", Slash, "brokers", Slash, BrokerNode, Slash, "clients", Slash, c,
      Slash, "connected">>
DisconnectedTopic(c) ==
    <<"$SYS", Slash, "brokers", Slash, BrokerNode, Slash, "clients", Slash, c,
      Slash, "dis", "connected">>

\* strings.Contains
Contains(s, w) ==
    \E i \in 0..(Len(s) - Len(w)) : SubSeq(s, i + 1, i + Len(w)) = w

\* the levels of a topic or of a topic filter
RECURSIVE Levels(_)
Levels(s) ==
    IF \A i \in 1..Len(s) : s[i] # Slash THEN <<s>>
    ELSE LET i == CHOOSE j \in 1..Len(s) :
                    s[j] = Slash /\ \A k \in 1..(j - 1) : s[k] # Slash
         IN  <<SubSeq(s, 1, i - 1)>> \o Levels(SubSeq(s, i + 1, Len(s)))

\* the topic filters the service subscribes to
SubscribedTopics ==
    {<<"presence", Slash, "+", Slash, "status">>,
     <<"$SYS", Slash, "brokers", Slash, "+", Slash, "clients", Slash, "+",
       Slash, "connected">>,
     <<"$SYS", Slash, "brokers", Slash, "+", Slash, "clients", Slash, "+",
       Slash, "dis", "connected">>}

\* MQTT matching of a topic against a filter with single-level wildcards
TopicMatches(filter, topic) ==
    LET f == Levels(filter)
        l == Levels(topic)
    IN  /\ Len(f) = Len(l)
        /\ \A i \in 1..Len(f) : f[i] = <<"+">> \/ f[i] = l[i]

Subscribed(topic) == \E f \in SubscribedTopics : TopicMatches(f, topic)

\* the message PublishPresenceUpdate hands to the broker
PublishPresenceUpdate(u, status, custom, t) ==
    [topic |-> StatusTopic(u),
     payload |-> Marshal([user |-> u, status |-> status, custom |-> custom,
                          timestamp |-> t])]

----------------------------------------------------------------------------
(* PresenceHTTPServer *)

\* as handleSetUserStatus, but the update is published for a rejected
\* request as well
handleSetUserStatus_PublishesAlways(st, u, status, custom, t) ==
    IF status \notin validStatuses
    THEN [code |-> 400, err |-> "Invalid status", st |-> st,
          pub |-> <<PublishPresenceUpdate(u, status, custom, t)>>]
    ELSE [code |-> 200, err |-> NoErr,
          st |-> SetUserStatus(st, u, status, custom, t).st,
          pub |-> <<PublishPresenceUpdate(u, status, custom, t)>>]

\* pub: the messages the handler publishes
handleSetUserStatus(st, u, status, custom, t) ==
    IF status \notin validStatuses
    THEN [code |-> 400, err |-> "Invalid status", st |-> st, pub |-> <<>>]
    ELSE [code |-> 200, err |-> NoErr,
          st |-> SetUserStatus(st, u, status, custom, t).st,
          pub |-> <<PublishPresenceUpdate(u, status, custom, t)>>]

handleGetUserPresence(st, u, t) ==
    LET got == GetUserPresence(st, u, t)
    IN  IF got.err # NoErr THEN [code |-> 500, err |-> got.err]
        ELSE [code |-> 200, err |-> NoErr, body |-> got.v]

handleGetMultipleUserPresence(st, userIDs, t, failed) ==
    LET got == GetMultipleUserPresence(st, userIDs, t, failed)
    IN  IF Len(userIDs) = 0 THEN [code |-> 400, err |-> "No user IDs provided"]
        ELSE IF Len(userIDs) > MaxBulkUserIDs
             THEN [code |-> 400, err |-> "Too many user IDs (max 100)"]
        ELSE IF got.err # NoErr THEN [code |-> 500, err |-> got.err]
        ELSE [code |-> 200, err |-> NoErr, body |-> got.v]

handleGetUserSessions(st, u) ==
    [code |-> 200, err |-> NoErr, body |-> GetUserDeviceSessions(st, u)]

----------------------------------------------------------------------------
(* MQTTServer: the handler of the messages the broker delivers *)

\* a field of a decoded JSON object; a field the document lacks decodes to
\* the empty string
Field(doc, name) == IF name \in DOMAIN doc THEN doc[name] ELSE ""

\* uuid.Parse: the user ids are the strings that parse
ParseUUID(x) == IF x \in Users THEN [err |-> NoErr, v |-> x]
                ELSE [err |-> "invalid UUID"]

\* the first match of $SYS/brokers/[^/]+/clients/([^/]+)/(connected|disconnected)
extractClientIDFromTopic(topic) ==
    LET l == Levels(topic)
        hits == {i \in 1..(Len(l) - 5) :
                    /\ l[i] = <<"$SYS">>
                    /\ l[i + 1] = <<"brokers">>
                    /\ l[i + 2] # <<>>
                    /\ l[i + 3] = <<"clients">>
                    /\ l[i + 4] # <<>>
                    /\ \/ Contains(<<Head(l[i + 5])>>, <<"connected">>)
                       \/ SubSeq(l[i + 5], 1, 2) = <<"dis", "connected">>}
    IN  IF hits = {} \/ Len(l) < 6 THEN ""
        ELSE LET i == CHOOSE x \in hits : \A y \in hits : x <= y
             IN  l[i + 4][1]

\* a message that leads to no call of the usecase
Unrouted(st) == [call |-> "none", arg |-> <<>>, err |-> NoErr, st |-> st]

handleClientConnected(st, topic, payload, t) ==
    LET clientID == extractClientIDFromTopic(topic)
        connInfo == Unmarshal(payload)
        userID == ParseUUID(Field(connInfo.v, "username"))
    IN  IF clientID = "" THEN Unrouted(st)
        ELSE IF connInfo.err # NoErr THEN Unrouted(st)
        ELSE IF userID.err # NoErr THEN Unrouted(st)
        ELSE LET r == HandleClientConnected(st, clientID, userID.v, t)
             IN  [call |-> "ClientConnected", arg |-> <<clientID, userID.v>>,
                  err |-> r.err, st |-> r.st]

handleClientDisconnected(st, topic, payload, t) ==
    LET clientID == extractClientIDFromTopic(topic)
    IN  IF clientID = "" THEN Unrouted(st)
        ELSE LET r == HandleClientDisconnected(st, clientID, t)
             IN  [call |-> "ClientDisconnected", arg |-> <<clientID>>,
                  err |-> r.err, st |-> r.st]

\* as messageHandler, but the test for "disconnected" comes first
messageHandler_DisconnectedFirst(st, msg, t) ==
    IF Contains(msg.topic, <<"presence", Slash>>)
       /\ Contains(msg.topic, <<Slash, "status">>)
    THEN LET r == HandlePresenceUpdate(st, msg.payload, t)
         IN  [call |-> "StatusUpdate", arg |-> <<msg.payload>>,
              err |-> r.err, st |-> r.st]
    ELSE IF Contains(msg.topic, <<"dis", "connected">>)
         THEN handleClientDisconnected(st, msg.topic, msg.payload, t)
    ELSE IF Contains(msg.topic, <<"connected">>)
         THEN handleClientConnected(st, msg.topic, msg.payload, t)
    ELSE Unrouted(st)

\* the routing by substrings of the topic, in the order of the code
messageHandler(st, msg, t) ==
    IF Contains(msg.topic, <<"presence", Slash>>)
       /\ Contains(msg.topic, <<Slash, "status">>)
    THEN LET r == HandlePresenceUpdate(st, msg.payload, t)
         IN  [call |-> "StatusUpdate", arg |-> <<msg.payload>>,
              err |-> r.err, st |-> r.st]
    ELSE IF Contains(msg.topic, <<"connected">>)
         THEN handleClientConnected(st, msg.topic, msg.payload, t)
    ELSE IF Contains(msg.topic, <<"dis", "connected">>)
         THEN handleClientDisconnected(st, msg.topic, msg.payload, t)
    ELSE Unrouted(st)

----------------------------------------------------------------------------
(* The calls.  Each action is one call run from start to end at time now.  *)

NoCall == [op |-> "none", arg |-> <<>>, err |-> NoErr, out |-> <<>>, at |-> 0]

Brief(call) == [op |-> call.op, arg |-> call.arg, err |-> call.err]

SessionCalls == {"ClientConnected", "ClientDisconnected"}

\* prev keeps the run of connect and disconnect calls that immediately
\* precedes the last call, the two most recent of them
Shift ==
    IF last.op \notin SessionCalls THEN <<>>
    ELSE IF prev = <<>> THEN <<Brief(last)>>
    ELSE <<prev[Len(prev)], Brief(last)>>

\* a call that may write to the store
Returned(op, arg, err, out) ==
    /\ last' = [op |-> op, arg |-> arg, err |-> err, out |-> out, at |-> now]
    /\ prev' = Shift
    /\ nops' = nops + 1

\* a call of the read API
Answered(op, arg, err, out) ==
    /\ last' = [op |-> op, arg |-> arg, err |-> err, out |-> out, at |-> now]
    /\ prev' = Shift
    /\ nops' = nops

\* the timestamps an event may carry
EventTimes == {0, now}

\* the status update events of the model: a valid and an unknown status
PresenceUpdates ==
    [user : Users, status : {StatusAway, OtherStatus},
     custom : {""}, timestamp : EventTimes]

\* the bodies of the status requests of the model
StatusRequests ==
    {<<StatusOnline, "">>, <<StatusAway, "brb">>, <<StatusOffline, "">>,
     <<StatusDoNotDisturb, "">>, <<OtherStatus, "">>}

HeartbeatMessages == [client : Clients, timestamp : EventTimes]

NoMessage == [topic |-> <<>>, payload |-> Garbage]

\* nothing published, nothing received, no client has signalled
MqttIdle ==
    [inflight |-> <<>>, rx |-> NoMessage, rxN |-> 0,
     conn |-> [c \in Clients |-> Nil], beat |-> [c \in Clients |-> Nil]]

\* the cleanup goroutine waits in its select; the context is live
ReaperIdle ==
    [pc |-> "waiting", ctx |-> "live", ticked |-> FALSE,
     todo |-> <<>>, scanned |-> <<>>, tried |-> <<>>,
     refused |-> 0, cut |-> FALSE, done |-> <<>>]

\* no pair of handlers is running
RaceIdle ==
    [phase |-> "idle", c |-> "c1", u |-> "u1", base |-> EmptyRedis,
     cpc |-> "done", dpc |-> "done", session |-> Nil, marked |-> Nil,
     ids |-> {}, active |-> FALSE, derr |-> NoErr, split |-> FALSE,
     d |-> "c1", spc |-> "done", presence |-> Nil, sids |-> {},
     sactive |-> FALSE]

----------------------------------------------------------------------------
(* Message service: ProcessIncomingMessage and the table messages with its *)
(* unique index msg_dedupe_uidx on (conversation_id, dedupe_key) WHERE     *)
(* dedupe_key IS NOT NULL.  The conversations and senders of the payloads  *)
(* exist.                                                                  *)

Conversations == {"k1", "k2"}
DedupeKeys == {"", "d1", "d2"}
Contents == {"hi", "yo"}

ErrUniqueViolation == "duplicate key value violates unique constraint"

IncomingMessages ==
    [conversation : Conversations, sender : Users, content : Contents,
     dedupe : DedupeKeys]

\* the rows the unique index compares with a new row: DedupeKey is a Go
\* string, so the column is never NULL and every row is in the index
Conflicting(rows, message) ==
    {r \in rows : r.conversation = message.conversation /\ r.dedupe = message.dedupe}

\* as CreateMessage, but a plain INSERT without the ON CONFLICT clause
CreateMessage_PlainInsert(rows, message) ==
    IF Conflicting(rows, message) # {}
    THEN [err |-> ErrUniqueViolation, rows |-> rows]
    ELSE [err |-> NoErr, rows |-> rows \cup {message}]

\* INSERT ... ON CONFLICT (conversation_id, dedupe_key) WHERE dedupe_key
\* IS NOT NULL DO NOTHING
CreateMessage(rows, message) ==
    IF Conflicting(rows, message) # {}
    THEN [err |-> NoErr, rows |-> rows]
    ELSE [err |-> NoErr, rows |-> rows \cup {message}]

\* id: the uuid.New() of this call
ProcessIncomingMessage(rows, payload, id, t) ==
    LET incoming == Unmarshal(payload)
    IN  IF incoming.err # NoErr THEN [err |-> incoming.err, rows |-> rows]
        ELSE CreateMessage(rows,
                [id |-> id, conversation |-> incoming.v.conversation,
                 sender |-> incoming.v.sender, content |-> incoming.v.content,
                 dedupe |-> incoming.v.dedupe, sentAt |-> t, deleted |-> FALSE])

NoMessages ==
    [rows |-> {}, nextId |-> 1,
     seen |-> [k \in Conversations, d \in DedupeKeys |-> 0]]

----------------------------------------------------------------------------
(* Media service: MediaUsecase over the table attachments, for one         *)
(* attachment.  row is the stored row, Nil before InitiateUpload; every    *)
(* request and the scan goroutine hold the copy they read with             *)
(* GetAttachment, and UpdateAttachment writes a whole copy back.           *)

FileStatusUploading == "uploading"
FileStatusScanning == "scanning"
FileStatusReady == "ready"
FileStatusQuarantine == "quarantine"
FileStatusError == "error"

ErrAttachmentNotFound == "attachment not found"
ErrInvalidFileStatus == "invalid file status"
ErrFileNotReady == "file not ready"
ErrStorage == "storage error"

antivirusEnabled == TRUE

MessageIDs == {"m1", "m2"}

\* what ScanFile may return: clean, infected, or an error
Verdicts == {"clean", "infected", "failed"}

\* the status performAntivirusScan derives from the result of ScanFile
StatusOfVerdict(v) ==
    IF v = "failed" THEN FileStatusError
    ELSE IF v = "clean" THEN FileStatusReady
    ELSE FileStatusQuarantine

\* UPDATE attachments SET message_id, ..., status, ... WHERE id = $1
UpdateAttachment(row, copy) == IF row = Nil THEN row ELSE At(copy)

GetDownloadURL(row) ==
    IF row = Nil THEN [err |-> ErrAttachmentNotFound]
    ELSE IF row[1].status # FileStatusReady THEN [err |-> ErrFileNotReady]
    ELSE [err |-> NoErr]

Idle == [pc |-> "idle", copy |-> Nil, err |-> NoErr]

NoMedia ==
    [row |-> Nil, complete |-> Idle, scan |-> Idle, assoc |-> Idle,
     verdict |-> Nil, wanted |-> Nil]

----------------------------------------------------------------------------
(* Chat API: ChatUsecase over the tables conversations and                 *)
(* conversation_participants (unique on conversation_id, user_id).         *)
(* st = [conversations, participants, nextId].                             *)

ConversationTypeDM == "DM"
ConversationTypeGroup == "GROUP"
ParticipantRoleAdmin == "admin"
ParticipantRoleMember == "member"

ErrInvalidRequest == "invalid request"
ErrInvalidDMParticipants == "DM conversations must have exactly 2 participants"
ErrNotParticipant == "not a participant"
ErrInsufficientPermissions == "insufficient permissions"

\* the row of user u in conversation k, or Nil
GetParticipant(st, k, u) ==
    IF \E p \in st.participants : p.conversation = k /\ p.user = u
    THEN At(CHOOSE p \in st.participants : p.conversation = k /\ p.user = u)
    ELSE Nil

\* INSERT ... ON CONFLICT (conversation_id, user_id) DO NOTHING
RepoAddParticipant(st, k, u, role) ==
    IF GetParticipant(st, k, u) # Nil THEN st
    ELSE [st EXCEPT !.participants =
                       @ \cup {[conversation |-> k, user |-> u, role |-> role]}]

RepoRemoveParticipant(st, k, u) ==
    [st EXCEPT !.participants = {p \in @ : ~(p.conversation = k /\ p.user = u)}]

RECURSIVE AddOthers(_, _, _, _)
AddOthers(st, k, ids, creator) ==
    IF ids = <<>> THEN st
    ELSE IF Head(ids) = creator THEN AddOthers(st, k, Tail(ids), creator)
    ELSE AddOthers(RepoAddParticipant(st, k, Head(ids), ParticipantRoleMember),
                   k, Tail(ids), creator)

CreateConversation(st, req, creator) ==
    LET k == st.nextId
        created == [st EXCEPT !.conversations = @ \cup {[id |-> k, type |-> req.type,
                                                         createdBy |-> creator]},
                              !.nextId = @ + 1]
        withCreator == RepoAddParticipant(created, k, creator, ParticipantRoleAdmin)
    IN  IF Len(req.participants) = 0 THEN [err |-> ErrInvalidRequest, st |-> st]
        ELSE IF req.type = ConversationTypeDM /\ Len(req.participants) # 1
        THEN [err |-> ErrInvalidDMParticipants, st |-> st]
        ELSE [err |-> NoErr, st |-> AddOthers(withCreator, k, req.participants, creator)]

\* role: the role of the request, "" when it names none
AddParticipant(st, k, requester, u, role) ==
    LET requesterParticipant == GetParticipant(st, k, requester)
    IN  IF requesterParticipant = Nil
           \/ requesterParticipant[1].role # ParticipantRoleAdmin
        THEN [err |-> ErrInsufficientPermissions, st |-> st]
        ELSE [err |-> NoErr,
              st |-> RepoAddParticipant(st, k, u,
                        IF role = "" THEN ParticipantRoleMember ELSE role)]

RemoveParticipant(st, k, requester, target) ==
    LET requesterParticipant == GetParticipant(st, k, requester)
    IN  IF requesterParticipant = Nil THEN [err |-> ErrNotParticipant, st |-> st]
        ELSE IF requester # target
                /\ requesterParticipant[1].role # ParticipantRoleAdmin
        THEN [err |-> ErrInsufficientPermissions, st |-> st]
        ELSE [err |-> NoErr, st |-> RepoRemoveParticipant(st, k, target)]

NoChat == [conversations |-> {}, participants |-> {}, nextId |-> 1]

Init ==
    /\ redis = EmptyRedis
    /\ now = 0
    /\ ticks = 0
    /\ nops = 0
    /\ last = NoCall
    /\ prev = <<>>
    /\ ever = [session |-> {}, status |-> {}]
    /\ mqtt = MqttIdle
    /\ reaper = ReaperIdle
    /\ race = RaceIdle
    /\ messages = NoMessages
    /\ media = NoMedia
    /\ chat = NoChat

ClientConnected(c, u) ==
    /\ LET r == HandleClientConnected(redis, c, u, now)
       IN  /\ redis' = r.st
           /\ Returned("ClientConnected", <<c, u>>, r.err, <<>>)
    /\ ever' = [ever EXCEPT !.session = @ \cup {u}]
    /\ UNCHANGED <<now, ticks>>

ClientDisconnected(c) ==
    /\ LET r == HandleClientDisconnected(redis, c, now)
       IN  /\ redis' = r.st
           /\ Returned("ClientDisconnected", <<c>>, r.err, <<>>)
    /\ UNCHANGED <<now, ticks, ever>>

StatusUpdate(payload) ==
    /\ LET r == HandlePresenceUpdate(redis, payload, now)
       IN  /\ redis' = r.st
           /\ Returned("StatusUpdate", <<payload>>, r.err, <<>>)
           /\ ever' = IF r.err = NoErr
                      THEN [ever EXCEPT !.status = @ \cup {Unmarshal(payload).v.user}]
                      ELSE ever
    /\ UNCHANGED <<now, ticks>>

Heartbeat(payload) ==
    /\ LET r == HandleHeartbeat(redis, payload, now)
       IN  /\ redis' = r.st
           /\ Returned("Heartbeat", <<payload>>, r.err, <<>>)
    /\ UNCHANGED <<now, ticks, ever>>

SetStatus(u, status, custom) ==
    /\ LET r == handleSetUserStatus(redis, u, status, custom, now)
       IN  /\ redis' = r.st
           /\ Returned("SetStatus", <<u, status, custom>>, r.err, r.pub)
           /\ ever' = IF r.err = NoErr
                      THEN [ever EXCEPT !.status = @ \cup {u}]
                      ELSE ever
    /\ UNCHANGED <<now, ticks>>

\* one run of the cleanup started by the ticker of StartCleanupRoutine
ReaperTick(order) ==
    /\ LET r == CleanupStalePresence(redis, order, now)
       IN  /\ redis' = r.st
           /\ Returned("ReaperTick", order, r.err,
                       GetStaleDeviceSessions(redis, offlineTimeout, now))
    /\ UNCHANGED <<now, ticks, ever>>

GetPresence(u) ==
    /\ LET r == handleGetUserPresence(redis, u, now)
       IN  Answered("GetPresence", <<u>>, r.err, IF r.err = NoErr THEN r.body ELSE <<>>)
    /\ UNCHANGED <<redis, now, ticks, ever>>

GetPresenceBulk(userIDs, failed) ==
    /\ LET r == handleGetMultipleUserPresence(redis, userIDs, now, failed)
       IN  Answered("GetPresenceBulk", <<userIDs, failed>>, r.err,
                    IF r.err = NoErr THEN r.body ELSE <<>>)
    /\ UNCHANGED <<redis, now, ticks, ever>>

ListUserSessions(u) ==
    /\ LET r == handleGetUserSessions(redis, u)
       IN  Answered("ListUserSessions", <<u>>, r.err, r.body)
    /\ UNCHANGED <<redis, now, ticks, ever>>

\* the clock advances; Redis drops the keys that expired meanwhile
Tick(d) ==
    /\ ticks < MaxTicks
    /\ now' = now + d
    /\ ticks' = ticks + 1
    /\ redis' = RedisPurge(redis, now + d)
    /\ UNCHANGED <<nops, last, prev, ever>>

MaxBulk == 2
BulkRequests == UNION {[1..n -> Users] : n \in 0..MaxBulk}

Write ==
    \/ \E c \in Clients, u \in Users : ClientConnected(c, u)
    \/ \E c \in Clients : ClientDisconnected(c)
    \/ \E m \in PresenceUpdates : StatusUpdate(Marshal(m))
    \/ StatusUpdate(Garbage)
    \/ \E m \in HeartbeatMessages : Heartbeat(Marshal(m))
    \/ Heartbeat(Garbage)
    \/ \E u \in Users, r \in StatusRequests : SetStatus(u, r[1], r[2])
    \/ \E o \in ScanOrders({s.client : s \in GetStaleDeviceSessions(redis, offlineTimeout, now)}) :
            ReaperTick(o)

\* The operations of the usecase and of the status request, called one
\* after the other; the broker is left out.
Next ==
    /\ \/ nops < MaxOps /\ Write
       \/ \E d \in ClockSteps : Tick(d)
    /\ UNCHANGED <<mqtt, reaper, race, messages, media, chat>>

Spec == Init /\ [][Next]_vars

\* Another writer of the Redis instance leaves a value that is not the
\* JSON of a UserPresence under a presence key.
CorruptPresence(u) ==
    /\ redis' = [redis EXCEPT
                    !.presence = RedisSet(@, u, Garbage, presenceExpiration, now)]
    /\ Returned("CorruptPresence", <<u>>, NoErr, <<>>)
    /\ UNCHANGED <<now, ticks, ever>>

MaxStoreOps == 2

\* The service with its read API, over a store whose commands may fail and
\* whose values may be corrupt.
NextStore ==
    /\ \/ nops < MaxStoreOps /\ Write
       \/ nops < MaxStoreOps /\ \E u \in Users : CorruptPresence(u)
       \/ \E u \in Users : GetPresence(u)
       \/ \E ids \in BulkRequests, failed \in BOOLEAN : GetPresenceBulk(ids, failed)
       \/ \E u \in Users : ListUserSessions(u)
       \/ \E d \in ClockSteps : Tick(d)
    /\ UNCHANGED <<mqtt, reaper, race, messages, media, chat>>

SpecStore == Init /\ [][NextStore]_vars

----------------------------------------------------------------------------
(* The service behind the broker: the clients connect to the broker,       *)
(* disconnect from it and publish; the broker hands the service the        *)
(* messages of the topics it subscribed to, its own publications included. *)

MaxIngressOps == 3
MaxIntervals == 3

\* the user names a client may connect with: the user ids and one that is
\* not a user id
Usernames == Users \cup {"guest"}

ConnectedMessage(c, n) ==
    [topic |-> ConnectedTopic(c),
     payload |-> Marshal([clientid |-> c, username |-> n])]

DisconnectedMessage(c, n) ==
    [topic |-> DisconnectedTopic(c),
     payload |-> Marshal([clientid |-> c, username |-> n, reason |-> "normal"])]

HeartbeatPublication(c, n, t) ==
    [topic |-> HeartbeatTopic(n),
     payload |-> Marshal([client |-> c, timestamp |-> t])]

\* the broker hands msg to the service if a subscription matches its topic
Receive(msg) ==
    LET r == IF Subscribed(msg.topic) THEN messageHandler(redis, msg, now)
             ELSE Unrouted(redis)
    IN  /\ redis' = r.st
        /\ Returned(r.call, r.arg, r.err, <<>>)
        /\ ever' = IF r.call = "ClientConnected"
                   THEN [ever EXCEPT !.session = @ \cup {r.arg[2]}]
                   ELSE IF r.call = "StatusUpdate" /\ r.err = NoErr
                   THEN [ever EXCEPT !.status = @ \cup {Unmarshal(msg.payload).v.user}]
                   ELSE ever
        /\ UNCHANGED <<now, ticks, reaper, race, messages, media, chat>>

\* client c connects to the broker as n; the broker announces it
ClientConnects(c, n) ==
    /\ mqtt.conn[c] = Nil
    /\ Receive(ConnectedMessage(c, n))
    /\ mqtt' = [mqtt EXCEPT !.rx = ConnectedMessage(c, n), !.rxN = nops + 1,
                            !.conn[c] = At(n), !.beat[c] = At(now)]

\* the connection of client c ends; the broker announces it
ClientDisconnects(c) ==
    /\ mqtt.conn[c] # Nil
    /\ Receive(DisconnectedMessage(c, mqtt.conn[c][1]))
    /\ mqtt' = [mqtt EXCEPT !.rx = DisconnectedMessage(c, mqtt.conn[c][1]),
                            !.rxN = nops + 1,
                            !.conn[c] = Nil, !.beat[c] = Nil]

\* a connected client publishes a status update for its user
ClientPublishesStatus(c, m) ==
    /\ mqtt.conn[c] = At(m.user)
    /\ Receive([topic |-> StatusTopic(m.user), payload |-> Marshal(m)])
    /\ mqtt' = [mqtt EXCEPT !.rx = [topic |-> StatusTopic(m.user),
                                    payload |-> Marshal(m)],
                            !.rxN = nops + 1]

\* a connected client publishes its heartbeat; beat keeps the time of the
\* last one as long as no interval was missed since the client connected
ClientHeartbeats(c) ==
    /\ mqtt.conn[c] # Nil
    /\ Receive(HeartbeatPublication(c, mqtt.conn[c][1], now))
    /\ mqtt' = [mqtt EXCEPT !.rx = HeartbeatPublication(c, mqtt.conn[c][1], now),
                            !.rxN = nops + 1,
                            !.beat[c] = IF @ # Nil /\ now - @[1] <= heartbeatInterval
                                        THEN At(now) ELSE Nil]

\* the status request of the HTTP API with the publication it makes
SetStatusRequest(u, status, custom) ==
    /\ SetStatus(u, status, custom)
    /\ mqtt' = [mqtt EXCEPT !.inflight =
                    @ \o handleSetUserStatus(redis, u, status, custom, now).pub]
    /\ UNCHANGED <<reaper, race, messages, media, chat>>

\* the broker delivers the oldest publication of the service
DeliverPublication ==
    /\ mqtt.inflight # <<>>
    /\ Receive(Head(mqtt.inflight))
    /\ mqtt' = [mqtt EXCEPT !.inflight = Tail(@), !.rx = Head(mqtt.inflight),
                            !.rxN = nops + 1]

\* one heartbeat interval passes
IntervalTick ==
    /\ ticks < MaxIntervals
    /\ now' = now + heartbeatInterval
    /\ ticks' = ticks + 1
    /\ redis' = RedisPurge(redis, now + heartbeatInterval)
    /\ UNCHANGED <<nops, last, prev, ever, mqtt, reaper, race, messages, media, chat>>

\* the clients that connect to the broker
IngressClients == {"c1", "c2"}

\* the status updates a client publishes, stamped with its current time
IngressUpdates == {m \in PresenceUpdates : m.timestamp = now}

\* the status requests made while the broker is watched: one that is
\* accepted and one that is rejected
IngressRequests == {<<StatusAway, "brb">>, <<OtherStatus, "">>}

\* one run of the cleanup while the broker is watched
IngressReaperTick ==
    /\ \E o \in ScanOrders({s.client : s \in GetStaleDeviceSessions(redis, offlineTimeout, now)}) :
          ReaperTick(o)
    /\ UNCHANGED <<mqtt, reaper, race, messages, media, chat>>

NextIngress ==
    \/ \E c \in IngressClients, n \in Usernames :
            nops < MaxIngressOps /\ ClientConnects(c, n)
    \/ \E c \in IngressClients : nops < MaxIngressOps /\ ClientDisconnects(c)
    \/ \E c \in IngressClients, m \in IngressUpdates :
            nops < MaxIngressOps /\ ClientPublishesStatus(c, m)
    \/ \E c \in IngressClients : nops < MaxIngressOps /\ ClientHeartbeats(c)
    \/ \E u \in Users, r \in IngressRequests :
            nops < MaxIngressOps /\ SetStatusRequest(u, r[1], r[2])
    \/ nops < MaxIngressOps /\ DeliverPublication
    \/ nops < MaxIngressOps /\ IngressReaperTick
    \/ IntervalTick

SpecIngress == Init /\ [][NextIngress]_vars

----------------------------------------------------------------------------
(* The cleanup goroutine, one usecase call at a time, next to the events   *)
(* of the clients and to the shutdown of main.                             *)

MaxReaperOps == 3
MaxReaperTicks == 2

\* the clients of the events that run beside the cleanup
ReaperClients == {"c1", "c2"}

\* the error of the first Redis command of a call: a command issued with a
\* cancelled context fails with the error of the context; failed: the
\* store is unavailable
Refusal(ctx, failed) ==
    IF ctx = "canceled" THEN ErrCanceled
    ELSE IF failed THEN ErrStore
    ELSE NoErr

\* HandleClientDisconnected with the context it is called with
HandleClientDisconnectedCtx(st, c, t, ctx, failed) ==
    IF Refusal(ctx, failed) # NoErr
    THEN [err |-> Refusal(ctx, failed), st |-> st]
    ELSE HandleClientDisconnected(st, c, t)

\* what a run leaves behind when CleanupStalePresence returns
RunSummary(rp, scanOk, swept) ==
    <<[scanOk |-> scanOk, scanned |-> rp.scanned, tried |-> rp.tried,
       swept |-> swept]>>

\* as AfterDisconnect, but the run returns at the first error
AfterDisconnect_AbortsOnError(rp, c, err) ==
    LET tried == Append(rp.tried, [client |-> c, err |-> err])
    IN  IF err # NoErr
        THEN [rp EXCEPT !.pc = "waiting", !.todo = <<>>, !.tried = tried,
                        !.done = RunSummary([rp EXCEPT !.tried = tried], TRUE, FALSE)]
        ELSE [rp EXCEPT !.todo = Tail(@), !.tried = tried]

\* the loop of CleanupStalePresence after one HandleClientDisconnected:
\* whatever the error, on to the next session
AfterDisconnect(rp, c, err) ==
    [rp EXCEPT !.todo = Tail(@),
               !.tried = Append(@, [client |-> c, err |-> err]),
               !.refused = IF err = ErrCanceled THEN @ + 1 ELSE @]

\* the ticker of StartCleanupRoutine fires: five minutes have passed.  A
\* goroutine that waits in its select with a cancelled context has
\* returned before.
CleanupTick ==
    /\ ticks < MaxReaperTicks
    /\ reaper.pc # "exited"
    /\ ~(reaper.pc = "waiting" /\ reaper.ctx = "canceled")
    /\ now' = now + cleanupInterval
    /\ ticks' = ticks + 1
    /\ redis' = RedisPurge(redis, now + cleanupInterval)
    /\ reaper' = [reaper EXCEPT !.ticked = TRUE]
    /\ UNCHANGED <<nops, last, prev, ever, mqtt, race, messages, media, chat>>

\* the select takes the tick and CleanupStalePresence scans for the stale
\* sessions; with a cancelled context the scan fails and the run returns
ReaperStartsSweep(order) ==
    /\ reaper.pc = "waiting"
    /\ reaper.ticked
    /\ reaper' =
          IF reaper.ctx = "canceled"
          THEN [reaper EXCEPT !.ticked = FALSE, !.scanned = <<>>, !.tried = <<>>,
                              !.done = RunSummary([reaper EXCEPT !.scanned = <<>>,
                                                                 !.tried = <<>>],
                                                  FALSE, FALSE)]
          ELSE [reaper EXCEPT !.ticked = FALSE, !.pc = "loop", !.todo = order,
                              !.scanned = order, !.tried = <<>>, !.done = <<>>]
    /\ UNCHANGED <<redis, now, ticks, nops, last, prev, ever, mqtt, race, messages, media, chat>>

\* one turn of the loop over the stale sessions
ReaperDisconnects(failed) ==
    /\ reaper.pc = "loop"
    /\ reaper.todo # <<>>
    /\ LET c == Head(reaper.todo)
           r == HandleClientDisconnectedCtx(redis, c, now, reaper.ctx, failed)
       IN  /\ redis' = r.st
           /\ reaper' = AfterDisconnect(reaper, c, r.err)
    /\ UNCHANGED <<now, ticks, nops, last, prev, ever, mqtt, race, messages, media, chat>>

\* the presence sweep that ends the run
ReaperSweeps ==
    /\ reaper.pc = "loop"
    /\ reaper.todo = <<>>
    /\ redis' = IF reaper.ctx = "canceled" THEN redis
                ELSE RepoCleanupStalePresence(redis, offlineTimeout, now)
    /\ reaper' = [reaper EXCEPT
                     !.pc = "waiting",
                     !.refused = IF reaper.ctx = "canceled" THEN @ + 1 ELSE @,
                     !.done = RunSummary(reaper, TRUE, TRUE)]
    /\ UNCHANGED <<now, ticks, nops, last, prev, ever, mqtt, race, messages, media, chat>>

\* the select takes ctx.Done and the goroutine returns
ReaperReturns ==
    /\ reaper.pc = "waiting"
    /\ reaper.ctx = "canceled"
    /\ reaper' = [reaper EXCEPT !.pc = "stopped"]
    /\ UNCHANGED <<redis, now, ticks, nops, last, prev, ever, mqtt, race, messages, media, chat>>

\* main receives the signal and cancels the context
Shutdown ==
    /\ reaper.ctx = "live"
    /\ reaper' = [reaper EXCEPT !.ctx = "canceled"]
    /\ UNCHANGED <<redis, now, ticks, nops, last, prev, ever, mqtt, race, messages, media, chat>>

\* main returns once the HTTP server has shut down; it does not wait for
\* the cleanup goroutine, which ends with the process
ProcessExit ==
    /\ reaper.ctx = "canceled"
    /\ reaper.pc # "exited"
    /\ reaper' = [reaper EXCEPT !.pc = "exited", !.cut = (reaper.pc = "loop")]
    /\ UNCHANGED <<redis, now, ticks, nops, last, prev, ever, mqtt, race, messages, media, chat>>

\* an event of a client, handled while the process runs
ReaperEvent(A) ==
    /\ nops < MaxReaperOps
    /\ reaper.pc # "exited"
    /\ A
    /\ UNCHANGED <<mqtt, reaper, race, messages, media, chat>>

NextReaper ==
    \/ \E c \in ReaperClients, u \in Users : ReaperEvent(ClientConnected(c, u))
    \/ \E c \in ReaperClients : ReaperEvent(ClientDisconnected(c))
    \/ \E u \in Users : ReaperEvent(SetStatus(u, StatusAway, "brb"))
    \/ CleanupTick
    \/ \E o \in ScanOrders({s.client : s \in GetStaleDeviceSessions(redis, offlineTimeout, now)}) :
            ReaperStartsSweep(o)
    \/ \E failed \in BOOLEAN : ReaperDisconnects(failed)
    \/ ReaperSweeps
    \/ ReaperReturns
    \/ Shutdown
    \/ ProcessExit

SpecReaper == Init /\ [][NextReaper]_vars

\* the goroutine is scheduled as long as the process runs
SpecReaperFair ==
    /\ SpecReaper
    /\ WF_vars(ReaperReturns)
    /\ WF_vars(ReaperSweeps)
    /\ WF_vars(\E failed \in BOOLEAN : ReaperDisconnects(failed))

----------------------------------------------------------------------------
(* The events with a store that can fail.  fault names the repository call *)
(* of HandleClientConnected whose Redis round trip fails: "create" (the    *)
(* pipeline of CreateDeviceSession, nothing is written), "presence" (the   *)
(* SET of SetUserPresence, after the session was written), or "none".      *)

MaxFaultOps == 3

Faults == {"none", "create", "presence"}

HandleClientConnectedFault(st, c, u, t, fault) ==
    LET session == [user |-> u, client |-> c, disconnectedAt |-> Nil,
                    lastHeartbeat |-> t]
    IN  IF fault = "create" THEN [err |-> ErrStore, st |-> st]
        ELSE IF fault = "presence"
        THEN [err |-> ErrStore, st |-> CreateDeviceSession(st, session, t)]
        ELSE HandleClientConnected(st, c, u, t)

ClientConnectedFault(c, u, fault) ==
    /\ LET r == HandleClientConnectedFault(redis, c, u, now, fault)
       IN  /\ redis' = r.st
           /\ Returned("ClientConnected", <<c, u>>, r.err, <<>>)
    /\ ever' = [ever EXCEPT !.session = @ \cup {u}]
    /\ UNCHANGED <<now, ticks, mqtt, reaper, race, messages, media, chat>>

FaultClients == {"c1", "c2"}

NextFault ==
    \/ \E c \in FaultClients, u \in Users, fault \in Faults :
            nops < MaxFaultOps /\ ClientConnectedFault(c, u, fault)
    \/ \E c \in FaultClients :
            nops < MaxFaultOps /\ ClientDisconnected(c) /\ UNCHANGED <<mqtt, reaper, race, messages, media, chat>>
    \/ \E u \in Users :
            nops < MaxFaultOps /\ SetStatus(u, StatusAway, "brb")
                               /\ UNCHANGED <<mqtt, reaper, race, messages, media, chat>>
    \/ \E d \in ClockSteps : Tick(d) /\ UNCHANGED <<mqtt, reaper, race, messages, media, chat>>

SpecFault == Init /\ [][NextFault]_vars

----------------------------------------------------------------------------
(* HandleClientConnected(c, u) and HandleClientDisconnected(c) in two      *)
(* goroutines, one Redis command at a time.  No lock is taken, and the     *)
(* commands of a Pipeline are sent together but are not a transaction.     *)

MaxRaceOps == 2

RaceClients == {"c1", "c2"}

\* the state before the two handlers start
RaceSetup(A) ==
    /\ race.phase = "idle"
    /\ nops < MaxRaceOps
    /\ A
    /\ UNCHANGED <<mqtt, reaper, race, messages, media, chat>>

\* the broker delivers the connected event and the disconnected event of
\* client c; each is handled in a goroutine of its own
StartRace(c, u) ==
    /\ race.phase = "idle"
    /\ race' = [RaceIdle EXCEPT !.phase = "racing", !.c = c, !.u = u, !.d = c,
                                !.base = redis, !.cpc = "set", !.dpc = "get"]
    /\ UNCHANGED <<redis, now, ticks, nops, last, prev, ever, mqtt, reaper, messages, media, chat>>

\* the next command of HandleClientConnected: CreateDeviceSession (Set,
\* SAdd, Expire), then SetUserPresence
ConnectStep ==
    /\ race.phase # "idle"
    /\ race.cpc # "done"
    /\ LET c == race.c
           u == race.u
           session == [user |-> u, client |-> c, disconnectedAt |-> Nil,
                       lastHeartbeat |-> now]
           presence == [user |-> u, status |-> StatusOnline, lastSeen |-> now,
                        custom |-> ""]
           split == race.split \/ race.dpc = "srem"
       IN  CASE race.cpc = "set" ->
                 /\ redis' = [redis EXCEPT !.session =
                                 RedisSet(@, c, Marshal(session), sessionExpiration, now)]
                 /\ race' = [race EXCEPT !.cpc = "sadd", !.split = split]
             [] race.cpc = "sadd" ->
                 /\ redis' = [redis EXCEPT !.userSessions = RedisSAdd(@, u, c)]
                 /\ race' = [race EXCEPT !.cpc = "expire", !.split = split]
             [] race.cpc = "expire" ->
                 /\ redis' = [redis EXCEPT !.userSessions =
                                 RedisExpire(@, u, sessionExpiration, now)]
                 /\ race' = [race EXCEPT !.cpc = "setp", !.split = split]
             [] race.cpc = "setp" ->
                 /\ redis' = SetUserPresence(redis, presence, now)
                 /\ race' = [race EXCEPT !.cpc = "done", !.split = split]
    /\ UNCHANGED <<now, ticks, nops, last, prev, ever, mqtt, reaper, messages, media, chat>>

\* the next command of HandleClientDisconnected: GetDeviceSession, then
\* DisconnectDeviceSession (Get, Set, SRem), then GetUserDeviceSessions
\* (SMembers, a Get for each member x), then SetUserPresence
DisconnectStep(x) ==
    /\ race.phase # "idle"
    /\ race.dpc # "done"
    /\ LET c == race.d
           got == GetDeviceSession(redis, c)
           split == race.split \/ race.cpc \in {"sadd", "expire"}
           decided(active) == IF active THEN "done" ELSE "setp"
       IN  CASE race.dpc = "get" ->
                 /\ redis' = redis
                 /\ race' = IF got.err # NoErr
                            THEN [race EXCEPT !.dpc = "done", !.derr = got.err,
                                              !.split = split]
                            ELSE [race EXCEPT !.dpc = "get2", !.session = At(got.v),
                                              !.split = split]
             [] race.dpc = "get2" ->
                 /\ redis' = redis
                 /\ race' = IF got.err # NoErr
                            THEN [race EXCEPT !.dpc = "done", !.derr = got.err,
                                              !.split = split]
                            ELSE [race EXCEPT
                                    !.dpc = "set",
                                    !.marked = At([got.v EXCEPT !.disconnectedAt = At(now)]),
                                    !.split = split]
             [] race.dpc = "set" ->
                 /\ redis' = [redis EXCEPT !.session =
                                 RedisSet(@, c, Marshal(race.marked[1]),
                                          disconnectedRetention, now)]
                 /\ race' = [race EXCEPT !.dpc = "srem", !.split = split]
             [] race.dpc = "srem" ->
                 /\ redis' = [redis EXCEPT !.userSessions =
                                 RedisSRem(@, race.marked[1].user, c)]
                 /\ race' = [race EXCEPT !.dpc = "smembers", !.split = split]
             [] race.dpc = "smembers" ->
                 /\ redis' = redis
                 /\ LET ids == RedisSMembers(redis.userSessions, race.session[1].user)
                    IN  race' = [race EXCEPT
                                   !.dpc = IF ids = {} THEN "setp" ELSE "gets",
                                   !.ids = ids, !.active = FALSE, !.split = split]
             [] race.dpc = "gets" ->
                 /\ x \in race.ids
                 /\ redis' = redis
                 /\ LET s == GetDeviceSession(redis, x)
                        active == \/ race.active
                                  \/ /\ s.err = NoErr
                                     /\ s.v.disconnectedAt = Nil
                                     /\ s.v.client # c
                    IN  race' = [race EXCEPT
                                   !.ids = @ \ {x}, !.active = active,
                                   !.dpc = IF race.ids = {x} THEN decided(active)
                                           ELSE "gets",
                                   !.split = split]
             [] race.dpc = "setp" ->
                 /\ redis' = SetUserPresence(redis,
                                 [user |-> race.session[1].user,
                                  status |-> StatusOffline, lastSeen |-> now,
                                  custom |-> ""], now)
                 /\ race' = [race EXCEPT !.dpc = "done", !.split = split]
    /\ UNCHANGED <<now, ticks, nops, last, prev, ever, mqtt, reaper, messages, media, chat>>

NextRace ==
    \/ \E c \in RaceClients, u \in Users : RaceSetup(ClientConnected(c, u))
    \/ \E c \in RaceClients : RaceSetup(ClientDisconnected(c))
    \/ \E u \in Users : RaceSetup(SetStatus(u, StatusAway, ""))
    \/ \E c \in RaceClients, u \in Users : StartRace(c, u)
    \/ ConnectStep
    \/ \E x \in Clients : DisconnectStep(x)

SpecRace == Init /\ [][NextRace]_vars

----------------------------------------------------------------------------
(* The cleanup goroutine beside the handler of a connected event: the      *)
(* presence sweep of repo.CleanupStalePresence for the key of one user, or *)
(* the HandleClientDisconnected of a stale session, one Redis command at a *)
(* time, while HandleClientConnected(c, u) runs.                           *)

\* the cleanup reaches the presence key of user u while the connected event
\* of client c for u is handled
StartSweepRace(c, u) ==
    /\ race.phase = "idle"
    /\ u \in DOMAIN redis.presence
    /\ race' = [RaceIdle EXCEPT !.phase = "sweeping", !.c = c, !.u = u,
                                !.base = redis, !.cpc = "set", !.spc = "get"]
    /\ UNCHANGED <<redis, now, ticks, nops, last, prev, ever, mqtt, reaper, messages, media, chat>>

\* the cleanup disconnects the stale session d of user u while the connected
\* event of another client c for u is handled
StartReaperRace(c, d, u) ==
    /\ race.phase = "idle"
    /\ c # d
    /\ \E s \in GetStaleDeviceSessions(redis, offlineTimeout, now) :
          s.client = d /\ s.user = u
    /\ race' = [RaceIdle EXCEPT !.phase = "reaping", !.c = c, !.u = u, !.d = d,
                                !.base = redis, !.cpc = "set", !.dpc = "get"]
    /\ UNCHANGED <<redis, now, ticks, nops, last, prev, ever, mqtt, reaper, messages, media, chat>>

\* the next command of the sweep for the presence key of race.u:
\* GetUserPresence, then GetUserDeviceSessions (SMembers, a Get for each
\* member x), then SetUserPresence with the record that was read
SweepStep(x) ==
    /\ race.phase = "sweeping"
    /\ race.spc # "done"
    /\ LET u == race.u
           cutoff == now - offlineTimeout
           got == GetUserPresence(redis, u, now)
           decided(active) ==
               IF ~active /\ race.presence[1].status # StatusOffline
               THEN "setp" ELSE "done"
       IN  CASE race.spc = "get" ->
                 /\ redis' = redis
                 /\ race' = IF got.err # NoErr \/ ~(got.v.lastSeen < cutoff)
                            THEN [race EXCEPT !.spc = "done"]
                            ELSE [race EXCEPT !.spc = "smembers",
                                              !.presence = At(got.v)]
             [] race.spc = "smembers" ->
                 /\ redis' = redis
                 /\ LET ids == RedisSMembers(redis.userSessions, u)
                    IN  race' = [race EXCEPT
                                   !.spc = IF ids = {} THEN decided(FALSE) ELSE "gets",
                                   !.sids = ids, !.sactive = FALSE]
             [] race.spc = "gets" ->
                 /\ x \in race.sids
                 /\ redis' = redis
                 /\ LET s == GetDeviceSession(redis, x)
                        active == \/ race.sactive
                                  \/ /\ s.err = NoErr
                                     /\ s.v.disconnectedAt = Nil
                                     /\ s.v.lastHeartbeat > cutoff
                    IN  race' = [race EXCEPT
                                   !.sids = @ \ {x}, !.sactive = active,
                                   !.spc = IF race.sids = {x} THEN decided(active)
                                           ELSE "gets"]
             [] race.spc = "setp" ->
                 /\ redis' = SetUserPresence(redis,
                                 [race.presence[1] EXCEPT !.status = StatusOffline],
                                 now)
                 /\ race' = [race EXCEPT !.spc = "done"]
    /\ UNCHANGED <<now, ticks, nops, last, prev, ever, mqtt, reaper, messages, media, chat>>

\* time passes before the two start
RaceTick(delta) ==
    /\ race.phase = "idle"
    /\ Tick(delta)
    /\ UNCHANGED <<mqtt, reaper, race, messages, media, chat>>

NextSweepRace ==
    \/ \E c \in RaceClients, u \in Users : RaceSetup(ClientConnected(c, u))
    \/ \E c \in RaceClients : RaceSetup(ClientDisconnected(c))
    \/ \E delta \in ClockSteps : RaceTick(delta)
    \/ \E c \in RaceClients, u \in Users : StartSweepRace(c, u)
    \/ \E c \in RaceClients, d \in RaceClients, u \in Users : StartReaperRace(c, d, u)
    \/ ConnectStep
    \/ \E x \in Clients : DisconnectStep(x)
    \/ \E x \in Clients : SweepStep(x)

SpecSweepRace == Init /\ [][NextSweepRace]_vars

----------------------------------------------------------------------------
(* The message service receives payloads from the broker, each handled by  *)
(* one SQL statement.                                                      *)

MaxMessageOps == 4

IncomingMessage(payload) ==
    /\ nops < MaxMessageOps
    /\ LET r == ProcessIncomingMessage(messages.rows, payload, messages.nextId, now)
           incoming == Unmarshal(payload)
       IN  /\ messages' =
                 [rows |-> r.rows,
                  nextId |-> IF incoming.err # NoErr THEN messages.nextId
                             ELSE messages.nextId + 1,
                  seen |-> IF incoming.err # NoErr THEN messages.seen
                           ELSE [messages.seen EXCEPT
                                   ![incoming.v.conversation, incoming.v.dedupe] = @ + 1]]
           /\ Returned("ProcessIncomingMessage", <<payload>>, r.err, <<>>)
    /\ UNCHANGED <<redis, now, ticks, ever, mqtt, reaper, race, media, chat>>

NextMessages ==
    \/ \E m \in IncomingMessages : IncomingMessage(Marshal(m))
    \/ IncomingMessage(Garbage)

SpecMessages == Init /\ [][NextMessages]_vars

----------------------------------------------------------------------------
(* The requests of the chat API, one after the other.                      *)

MaxChatOps == 3
MaxParticipantIDs == 2

ChatUsers == {"u1", "u2", "u3"}

CreateConversationRequests ==
    [type : {ConversationTypeDM, ConversationTypeGroup},
     participants : UNION {[1..n -> ChatUsers] : n \in 0..MaxParticipantIDs}]

ConversationIDs == 1..MaxChatOps

ChatCreate(req, creator) ==
    /\ nops < MaxChatOps
    /\ LET r == CreateConversation(chat, req, creator)
       IN  /\ chat' = r.st
           /\ Returned("CreateConversation", <<req, creator>>, r.err,
                       IF r.err = NoErr THEN <<chat.nextId>> ELSE <<>>)
    /\ UNCHANGED <<redis, now, ticks, ever, mqtt, reaper, race, messages, media>>

ChatAdd(k, requester, u, role) ==
    /\ nops < MaxChatOps
    /\ LET r == AddParticipant(chat, k, requester, u, role)
       IN  /\ chat' = r.st
           /\ Returned("AddParticipant", <<k, requester, u, role>>, r.err, <<>>)
    /\ UNCHANGED <<redis, now, ticks, ever, mqtt, reaper, race, messages, media>>

ChatRemove(k, requester, target) ==
    /\ nops < MaxChatOps
    /\ LET r == RemoveParticipant(chat, k, requester, target)
       IN  /\ chat' = r.st
           /\ Returned("RemoveParticipant", <<k, requester, target>>, r.err, <<>>)
    /\ UNCHANGED <<redis, now, ticks, ever, mqtt, reaper, race, messages, media>>

NextChat ==
    \/ \E req \in CreateConversationRequests, creator \in ChatUsers :
            ChatCreate(req, creator)
    \/ \E k \in ConversationIDs, requester \in ChatUsers, u \in ChatUsers,
           role \in {"", ParticipantRoleAdmin} :
            ChatAdd(k, requester, u, role)
    \/ \E k \in ConversationIDs, requester \in ChatUsers, target \in ChatUsers :
            ChatRemove(k, requester, target)

SpecChat == Init /\ [][NextChat]_vars

----------------------------------------------------------------------------
(* The requests of the media service for one attachment and the scan       *)
(* goroutine, one SQL statement at a time.                                 *)

\* InitiateUpload inserts the row; message: the message id of the request,
\* Nil when it names none
InitiateUpload(message) ==
    /\ media.row = Nil
    /\ media' = [media EXCEPT !.row = At([status |-> FileStatusUploading,
                                          message |-> message])]
    /\ UNCHANGED <<redis, now, ticks, nops, last, prev, ever, mqtt, reaper, race,
                   messages, chat>>

\* CompleteUpload reads the row and checks its status
CompleteUploadGet ==
    /\ media.complete.pc = "idle"
    /\ media' = [media EXCEPT !.complete =
                    IF media.row = Nil
                    THEN [pc |-> "done", copy |-> Nil, err |-> ErrAttachmentNotFound]
                    ELSE IF media.row[1].status # FileStatusUploading
                    THEN [pc |-> "done", copy |-> Nil, err |-> ErrInvalidFileStatus]
                    ELSE [pc |-> "update", copy |-> media.row, err |-> NoErr]]
    /\ UNCHANGED <<redis, now, ticks, nops, last, prev, ever, mqtt, reaper, race,
                   messages, chat>>

\* CompleteUpload asks the storage for the file and writes its copy back:
\* error when the file is missing, else scanning and the scan is started
\* (ready when the antivirus is disabled)
CompleteUploadUpdate(uploaded) ==
    /\ media.complete.pc = "update"
    /\ LET status == IF ~uploaded THEN FileStatusError
                     ELSE IF antivirusEnabled THEN FileStatusScanning
                     ELSE FileStatusReady
           copy == [media.complete.copy[1] EXCEPT !.status = status]
       IN  media' = [media EXCEPT
                       !.row = UpdateAttachment(@, copy),
                       !.complete = [pc |-> "done", copy |-> At(copy),
                                     err |-> IF uploaded THEN NoErr ELSE ErrStorage],
                       !.scan = IF uploaded /\ antivirusEnabled
                                THEN [Idle EXCEPT !.pc = "get"] ELSE @]
    /\ UNCHANGED <<redis, now, ticks, nops, last, prev, ever, mqtt, reaper, race,
                   messages, chat>>

\* performAntivirusScan reads the row
ScanGet ==
    /\ media.scan.pc = "get"
    /\ media' = [media EXCEPT !.scan =
                    IF media.row = Nil
                    THEN [pc |-> "done", copy |-> Nil, err |-> ErrAttachmentNotFound]
                    ELSE [pc |-> "update", copy |-> media.row, err |-> NoErr]]
    /\ UNCHANGED <<redis, now, ticks, nops, last, prev, ever, mqtt, reaper, race,
                   messages, chat>>

\* ScanFile returns v and performAntivirusScan writes its copy back
ScanUpdate(v) ==
    /\ media.scan.pc = "update"
    /\ LET copy == [media.scan.copy[1] EXCEPT !.status = StatusOfVerdict(v)]
       IN  media' = [media EXCEPT
                       !.row = UpdateAttachment(@, copy),
                       !.scan = [pc |-> "done", copy |-> At(copy), err |-> NoErr],
                       !.verdict = At(v)]
    /\ UNCHANGED <<redis, now, ticks, nops, last, prev, ever, mqtt, reaper, race,
                   messages, chat>>

\* AssociateWithMessage reads the row
AssociateGet(m) ==
    /\ media.assoc.pc = "idle"
    /\ media' = [media EXCEPT
                    !.assoc = IF media.row = Nil
                              THEN [pc |-> "done", copy |-> Nil,
                                    err |-> ErrAttachmentNotFound]
                              ELSE [pc |-> "update", copy |-> media.row, err |-> NoErr],
                    !.wanted = At(m)]
    /\ UNCHANGED <<redis, now, ticks, nops, last, prev, ever, mqtt, reaper, race,
                   messages, chat>>

\* AssociateWithMessage writes its copy back with the message id
AssociateUpdate ==
    /\ media.assoc.pc = "update"
    /\ LET copy == [media.assoc.copy[1] EXCEPT !.message = media.wanted]
       IN  media' = [media EXCEPT
                       !.row = UpdateAttachment(@, copy),
                       !.assoc = [pc |-> "done", copy |-> At(copy), err |-> NoErr]]
    /\ UNCHANGED <<redis, now, ticks, nops, last, prev, ever, mqtt, reaper, race,
                   messages, chat>>

NextMedia ==
    \/ \E message \in {Nil} \cup {At(m) : m \in MessageIDs} : InitiateUpload(message)
    \/ CompleteUploadGet
    \/ \E uploaded \in BOOLEAN : CompleteUploadUpdate(uploaded)
    \/ ScanGet
    \/ \E v \in Verdicts : ScanUpdate(v)
    \/ \E m \in MessageIDs : AssociateGet(m)
    \/ AssociateUpdate

SpecMedia == Init /\ [][NextMedia]_vars

----------------------------------------------------------------------------
(* Vocabulary of the properties *)

\* the last call was op, it has just returned (no time has passed since)
Just(op) == last.op = op /\ last.at = now
JustOk(op) == Just(op) /\ last.err = NoErr

\* what getPresence(u) answers in the current state
getPresence(u) == handleGetUserPresence(redis, u, now)

\* what listUserSessions(u) answers in the current state
listUserSessions(u) == handleGetUserSessions(redis, u).body

HasSession(st, c) == GetDeviceSession(st, c).err = NoErr
SessionOf(st, c) == GetDeviceSession(st, c).v

\* the client ids of the connected sessions that belong to user u
ConnectedOf(st, u) ==
    {c \in Clients : /\ HasSession(st, c)
                     /\ SessionOf(st, c).user = u
                     /\ SessionOf(st, c).disconnectedAt = Nil}

StatusIn(st, u) == GetUserPresence(st, u, now).v.status

----------------------------------------------------------------------------
(* C1: after ClientConnected(c1,u), ClientConnected(c2,u) with c2 # c1 and *)
(* ClientDisconnected(c1), run one after the other, getPresence(u) is      *)
(* online, session c2 is connected and listed for u, and session c1        *)
(* carries a disconnect timestamp.                                         *)

C1_Scenario(c1, c2, u) ==
    /\ c1 # c2
    /\ JustOk("ClientDisconnected") /\ last.arg = <<c1>>
    /\ prev = <<[op |-> "ClientConnected", arg |-> <<c1, u>>, err |-> NoErr],
                [op |-> "ClientConnected", arg |-> <<c2, u>>, err |-> NoErr]>>

C1_SecondSessionKeepsOnline ==
    \A c1 \in Clients, c2 \in Clients, u \in Users :
        C1_Scenario(c1, c2, u) =>
            /\ getPresence(u).err = NoErr
            /\ getPresence(u).body.status = StatusOnline
            /\ HasSession(redis, c2)
            /\ SessionOf(redis, c2).disconnectedAt = Nil
            /\ SessionOf(redis, c2) \in listUserSessions(u)
            /\ HasSession(redis, c1)
            /\ SessionOf(redis, c1).disconnectedAt # Nil

C1_Witness ==
    \E c1 \in Clients, c2 \in Clients, u \in Users :
        /\ C1_Scenario(c1, c2, u)
        /\ getPresence(u).body.status = StatusOnline
        /\ SessionOf(redis, c1).disconnectedAt = At(now)

----------------------------------------------------------------------------
(* C3: after ClientConnected(c,u) returns without error, whatever the      *)
(* presence of u was before, getPresence(u) is online and a connected      *)
(* session for c (no disconnect timestamp, last heartbeat set) exists and  *)
(* is listed by listUserSessions(u).                                       *)

C3_ConnectSetsOnline ==
    \A c \in Clients, u \in Users :
        (JustOk("ClientConnected") /\ last.arg = <<c, u>>) =>
            /\ getPresence(u).err = NoErr
            /\ getPresence(u).body.status = StatusOnline
            /\ HasSession(redis, c)
            /\ SessionOf(redis, c).user = u
            /\ SessionOf(redis, c).disconnectedAt = Nil
            /\ SessionOf(redis, c).lastHeartbeat = now
            /\ SessionOf(redis, c) \in listUserSessions(u)

\* a connect that follows a status update for the same user
C3_Witness ==
    \E c \in Clients, u \in Users :
        /\ JustOk("ClientConnected") /\ last.arg = <<c, u>>
        /\ u \in ever.status
        /\ getPresence(u).body.status = StatusOnline

----------------------------------------------------------------------------
(* C5: setStatus(u, status, customStatus) followed immediately by          *)
(* getPresence(u) returns that status and that custom status, for every    *)
(* status of the enumeration, whatever sessions u has.                     *)

C5_SetStatusRoundTrip ==
    /\ \A u \in Users, r \in StatusRequests :
        (JustOk("SetStatus") /\ last.arg = <<u, r[1], r[2]>>) =>
            /\ r[1] \in validStatuses
            /\ getPresence(u).err = NoErr
            /\ getPresence(u).body.status = r[1]
            /\ getPresence(u).body.custom = r[2]
    \* the same for every status and text, from the current state
    /\ \A u \in Users, status \in validStatuses, custom \in CustomTexts :
        LET set == handleSetUserStatus(redis, u, status, custom, now)
            got == handleGetUserPresence(set.st, u, now)
        IN  /\ set.err = NoErr
            /\ got.err = NoErr
            /\ got.body.status = status
            /\ got.body.custom = custom

\* the round trip for a user who has a connected session
C5_Witness ==
    \E u \in Users :
        /\ JustOk("SetStatus") /\ last.arg = <<u, StatusAway, "brb">>
        /\ ConnectedOf(redis, u) # {}
        /\ getPresence(u).body.custom = "brb"

----------------------------------------------------------------------------
(* C6: ClientDisconnected(c) for a client id without a session record      *)
(* fails with "session not found" and leaves every presence record, every  *)
(* session record and every user session set as it was.                    *)

C6_UnknownClientStep ==
    /\ nops' = nops + 1
    /\ last'.op = "ClientDisconnected"
    /\ ~HasSession(redis, last'.arg[1])

C6_UnknownClientNoMutation ==
    [][C6_UnknownClientStep =>
          (last'.err = ErrSessionNotFound /\ redis' = redis)]_vars

\* a disconnect for an unknown client in a store that holds records
C6_Witness ==
    /\ Just("ClientDisconnected")
    /\ last.err = ErrSessionNotFound
    /\ DOMAIN redis.presence # {}
    /\ DOMAIN redis.session # {}

----------------------------------------------------------------------------
(* C2: if user u has exactly the two device sessions c1 and c2 and both    *)
(* ClientDisconnected(c1) and ClientDisconnected(c2) complete, then        *)
(* getPresence(u) is offline afterwards.                                   *)

C2_BothDisconnectedOffline ==
    \A u \in Users, c1 \in Clients, c2 \in Clients :
        (c1 # c2 /\ ConnectedOf(redis, u) = {c1, c2}) =>
            LET first == HandleClientDisconnected(redis, c1, now)
                second == HandleClientDisconnected(first.st, c2, now)
            IN  (first.err = NoErr /\ second.err = NoErr) =>
                    StatusIn(second.st, u) = StatusOffline

----------------------------------------------------------------------------
(* C4: whenever ClientDisconnected(c) completes and the user of c has no   *)
(* other connected session, the presence of that user is offline           *)
(* afterwards, also when it had been set to away or dnd before.            *)

C4_LastDisconnectForcesOffline ==
    \A c \in Clients :
        (JustOk("ClientDisconnected") /\ last.arg = <<c>>) =>
            LET u == SessionOf(redis, c).user
            IN  ConnectedOf(redis, u) \ {c} = {} =>
                    /\ getPresence(u).err = NoErr
                    /\ getPresence(u).body.status = StatusOffline

----------------------------------------------------------------------------
(* C7: delivering the same ClientDisconnected(c) a second time fails with  *)
(* "session not found".                                                    *)

C7_DuplicateDisconnectNotFound ==
    \A c \in Clients :
        ( /\ Just("ClientDisconnected") /\ last.arg = <<c>>
          /\ prev # <<>>
          /\ prev[Len(prev)] = [op |-> "ClientDisconnected", arg |-> <<c>>,
                                err |-> NoErr] )
        => last.err = ErrSessionNotFound

----------------------------------------------------------------------------
(* C8: a connected session whose last heartbeat is older than the offline  *)
(* timeout is returned by listStaleSessions; after one run of the cleanup  *)
(* it is no longer returned, and if its user has no connected session      *)
(* left, the presence of that user is offline.                             *)

listStaleSessions == GetStaleDeviceSessions(redis, offlineTimeout, now)

C8_ReaperReclaimsStale ==
    /\ \A c \in Clients :
          ( /\ HasSession(redis, c)
            /\ SessionOf(redis, c).disconnectedAt = Nil
            /\ SessionOf(redis, c).lastHeartbeat < now - offlineTimeout )
          => SessionOf(redis, c) \in listStaleSessions
    /\ JustOk("ReaperTick") =>
          \A s \in last.out :
              /\ \A x \in listStaleSessions : x.client # s.client
              /\ ConnectedOf(redis, s.user) = {} =>
                     /\ getPresence(s.user).err = NoErr
                     /\ getPresence(s.user).body.status = StatusOffline

----------------------------------------------------------------------------
(* C9: getPresenceBulk never returns an error or a result of another       *)
(* length: for a list of distinct user ids it returns one entry per id.    *)

Distinct(ids) == \A i \in 1..Len(ids), j \in 1..Len(ids) : ids[i] = ids[j] => i = j
Range(ids) == {ids[i] : i \in 1..Len(ids)}

C9_Request(ids, failed) ==
    /\ Just("GetPresenceBulk")
    /\ last.arg = <<ids, failed>>
    /\ Len(ids) >= 1 /\ Len(ids) <= MaxBulkUserIDs
    /\ Distinct(ids)

C9_BulkNeverFails ==
    \A ids \in BulkRequests, failed \in BOOLEAN :
        C9_Request(ids, failed) =>
            /\ last.err = NoErr
            /\ DOMAIN last.out = Range(ids)

\* C9 as amended: one entry per id, the missing and the corrupt ones as the
\* default offline record, when the read of the keys succeeds; the error of
\* the store and no entry when it fails
C9_BulkDefaultsUnlessStoreFails ==
    \A ids \in BulkRequests, failed \in BOOLEAN :
        C9_Request(ids, failed) =>
            IF failed
            THEN last.err = ErrStore /\ last.out = <<>>
            ELSE /\ last.err = NoErr
                 /\ DOMAIN last.out = Range(ids)
                 /\ \A u \in Range(ids) :
                       IF u \in DOMAIN redis.presence /\ redis.presence[u].val.valid
                       THEN last.out[u] = redis.presence[u].val.doc
                       ELSE last.out[u] = DefaultPresence(u, now)

\* a request for a user whose record is corrupt and a user who is online
C9_Witness ==
    \E ids \in BulkRequests :
        /\ C9_Request(ids, FALSE)
        /\ Len(ids) = 2
        /\ ids[1] \in DOMAIN redis.presence /\ ~redis.presence[ids[1]].val.valid
        /\ last.out[ids[1]].status = StatusOffline
        /\ last.out[ids[2]].status = StatusOnline

----------------------------------------------------------------------------
(* C10: for every user for whom no device session was ever recorded,       *)
(* getPresence returns offline; getPresence never fails with not-found.    *)

C10_NoSessionEverOffline ==
    \A u \in Users :
        u \notin ever.session =>
            /\ getPresence(u).err = NoErr
            /\ getPresence(u).body.status = StatusOffline

\* C10 as amended: the same for the users for whom, in addition, no status
\* was ever written by setStatus or by a status update event
C10_UntouchedUserOffline ==
    \A u \in Users :
        /\ getPresence(u).err \notin {ErrUserNotFound, ErrSessionNotFound}
        /\ (u \notin ever.session /\ u \notin ever.status) =>
              /\ getPresence(u).err = NoErr
              /\ getPresence(u).body.status = StatusOffline

\* a user nothing was ever written for, beside a user who is online
C10_Witness ==
    \E u \in Users, v \in Users :
        /\ u \notin ever.session /\ u \notin ever.status
        /\ v \in ever.session
        /\ getPresence(v).body.status = StatusOnline
        /\ getPresence(u).body.status = StatusOffline

----------------------------------------------------------------------------
(* C11: whenever a user has no live session (connected, with a heartbeat   *)
(* newer than the offline timeout) and the recomputation runs for that     *)
(* user, by a ClientDisconnected or by the presence sweep of the cleanup,  *)
(* the status of the user is offline once it has completed, whatever an    *)
(* earlier setStatus or status update had written.                         *)

\* the client ids of the live sessions that belong to user u
LiveOf(st, u, t) ==
    {c \in ConnectedOf(st, u) : SessionOf(st, c).lastHeartbeat > t - offlineTimeout}

C11_OverrideSuperseded ==
    /\ \A c \in Clients :
          (JustOk("ClientDisconnected") /\ last.arg = <<c>>) =>
              LET u == SessionOf(redis, c).user
              IN  LiveOf(redis, u, now) = {} =>
                      /\ getPresence(u).err = NoErr
                      /\ getPresence(u).body.status = StatusOffline
    /\ JustOk("ReaperTick") =>
          \A u \in DOMAIN redis.presence :
              ( /\ getPresence(u).err = NoErr
                /\ getPresence(u).body.lastSeen < now - offlineTimeout
                /\ LiveOf(redis, u, now) = {} )
              => getPresence(u).body.status = StatusOffline

----------------------------------------------------------------------------
(* C14: Heartbeat on an existing session sets the last heartbeat of that   *)
(* session to the timestamp of the event and changes nothing else: the     *)
(* presence records, the disconnect timestamp of the session, the user     *)
(* session sets and all other sessions stay as they were; on a client id   *)
(* without a session it fails with "session not found" and changes         *)
(* nothing.                                                                *)

OtherSessions(st, c) == [x \in DOMAIN st.session \ {c} |-> st.session[x]]

C14_HeartbeatOnlyAdvances ==
    \A m \in HeartbeatMessages :
        LET r == HandleHeartbeat(redis, Marshal(m), now)
        IN  IF HasSession(redis, m.client)
            THEN /\ r.err = NoErr
                 /\ HasSession(r.st, m.client)
                 /\ SessionOf(r.st, m.client) =
                        [SessionOf(redis, m.client) EXCEPT !.lastHeartbeat = m.timestamp]
                 /\ DOMAIN r.st.session = DOMAIN redis.session
                 /\ OtherSessions(r.st, m.client) = OtherSessions(redis, m.client)
                 /\ r.st.presence = redis.presence
                 /\ r.st.userSessions = redis.userSessions
            ELSE /\ r.err = ErrSessionNotFound
                 /\ r.st = redis

\* a heartbeat has just moved the last heartbeat of a session, next to
\* another session and a presence record
C14_Witness ==
    \E m \in HeartbeatMessages :
        /\ JustOk("Heartbeat") /\ last.arg = <<Marshal(m)>>
        /\ m.timestamp = now /\ now > 0
        /\ SessionOf(redis, m.client).lastHeartbeat = now
        /\ DOMAIN redis.session # {m.client}
        /\ DOMAIN redis.presence # {}

----------------------------------------------------------------------------
(* C15: a status update has no precondition and sets the presence of the   *)
(* user to the status and custom status of the event, with lastSeen the    *)
(* timestamp the event carries and not the time of processing; replaying   *)
(* status updates in timestamp order yields the presence of the latest.    *)

StatusEvents ==
    {[user |-> u, status |-> r[1], custom |-> r[2], timestamp |-> ts] :
        u \in Users, r \in {x \in StatusRequests : x[1] \in validStatuses},
        ts \in EventTimes}

PresenceOfEvent(m) ==
    [user |-> m.user, status |-> m.status, lastSeen |-> m.timestamp,
     custom |-> m.custom]

C15_StatusUpdateUsesEventTime ==
    /\ \A m \in StatusEvents :
          LET r == HandlePresenceUpdate(redis, Marshal(m), now)
          IN  /\ r.err = NoErr
              /\ GetUserPresence(r.st, m.user, now) =
                    [err |-> NoErr, v |-> PresenceOfEvent(m)]
    /\ \A m1 \in StatusEvents, m2 \in StatusEvents :
          (m1.user = m2.user /\ m1.timestamp <= m2.timestamp) =>
              LET r1 == HandlePresenceUpdate(redis, Marshal(m1), now)
                  r2 == HandlePresenceUpdate(r1.st, Marshal(m2), now)
              IN  GetUserPresence(r2.st, m2.user, now).v = PresenceOfEvent(m2)
    /\ \A m \in PresenceUpdates :
          (JustOk("StatusUpdate") /\ last.arg = <<Marshal(m)>>) =>
              getPresence(m.user).body = PresenceOfEvent(m)

\* an event stamped earlier than its processing, for a user without session
C15_Witness ==
    \E m \in PresenceUpdates :
        /\ JustOk("StatusUpdate") /\ last.arg = <<Marshal(m)>>
        /\ m.timestamp = 0 /\ now > 0
        /\ m.user \notin ever.session
        /\ getPresence(m.user).body.lastSeen = 0
        /\ getPresence(m.user).body.status = StatusAway

----------------------------------------------------------------------------
(* C19: in every reachable state every stored presence record has a status *)
(* of the enumeration {online, away, offline, dnd}, whichever path wrote   *)
(* it; a status update event with any other status is dropped as invalid   *)
(* input and does not change the store.                                    *)

C19_StoredStatusEnumerated ==
    /\ \A u \in DOMAIN redis.presence :
          Unmarshal(redis.presence[u].val).err = NoErr =>
              Unmarshal(redis.presence[u].val).v.status \in validStatuses
    /\ \A m \in PresenceUpdates :
          ( /\ Just("StatusUpdate") /\ last.arg = <<Marshal(m)>>
            /\ m.status \notin validStatuses )
          => last.err # NoErr

----------------------------------------------------------------------------
(* C12: a "disconnected" notification of the broker for client id c is     *)
(* routed to ClientDisconnected(c): after connected(c,u) and then          *)
(* disconnected(c) for the only device of u, session c carries a           *)
(* disconnect timestamp and the presence of u is offline; a disconnected   *)
(* notification never creates a session and never sets a presence online.  *)

\* the message the broker handed over last is the last thing that happened
JustReceived == mqtt.rxN = nops /\ nops > 0

C12_DisconnectedRoutedToDisconnect ==
    \A c \in IngressClients :
        (JustReceived /\ mqtt.rx.topic = DisconnectedTopic(c)) =>
            /\ last.op = "ClientDisconnected" /\ last.arg = <<c>>
            /\ ~(HasSession(redis, c) /\ SessionOf(redis, c).disconnectedAt = Nil)
            /\ \A u \in Users :
                  ( /\ prev # <<>>
                    /\ prev[Len(prev)] = [op |-> "ClientConnected", arg |-> <<c, u>>,
                                          err |-> NoErr]
                    /\ ConnectedOf(redis, u) \ {c} = {} )
                  => /\ HasSession(redis, c)
                     /\ SessionOf(redis, c).disconnectedAt # Nil
                     /\ getPresence(u).body.status = StatusOffline

----------------------------------------------------------------------------
(* C13: heartbeat events are forwarded to the Heartbeat operation, so a    *)
(* connected client that sends a heartbeat every heartbeat interval is     *)
(* never returned by listStaleSessions and never disconnected by the       *)
(* cleanup while it keeps sending them.                                    *)

\* client c is connected to the broker, has missed no heartbeat interval
\* and has a connected session for the user it connected as
Heartbeating(c) ==
    /\ mqtt.beat[c] # Nil
    /\ now - mqtt.beat[c][1] <= heartbeatInterval
    /\ HasSession(redis, c)
    /\ SessionOf(redis, c).disconnectedAt = Nil
    /\ mqtt.conn[c] = At(SessionOf(redis, c).user)

C13_HeartbeatingNeverStale ==
    /\ \A u \in Users :
          (JustReceived /\ mqtt.rx.topic = HeartbeatTopic(u)) => last.op = "Heartbeat"
    /\ \A c \in IngressClients :
          Heartbeating(c) => SessionOf(redis, c) \notin listStaleSessions
    /\ \A c \in IngressClients :
          ( /\ JustOk("ReaperTick")
            /\ mqtt.beat[c] # Nil
            /\ now - mqtt.beat[c][1] <= heartbeatInterval
            /\ HasSession(redis, c)
            /\ mqtt.conn[c] = At(SessionOf(redis, c).user) )
          => \A s \in last.out : s.client # c

----------------------------------------------------------------------------
(* C16: the status broadcast {userId, status, customStatus, timestamp} is  *)
(* published exactly when a setStatus call succeeds, once per call, and    *)
(* never by ClientConnected, ClientDisconnected, Heartbeat, a status       *)
(* update event or a run of the cleanup, even when those change a          *)
(* presence.                                                               *)

C16_Broadcast(u, status, custom, t) ==
    [topic |-> StatusTopic(u),
     payload |-> Marshal([user |-> u, status |-> status, custom |-> custom,
                          timestamp |-> t])]

C16_BroadcastOnlyOnSetStatus ==
    [][IF nops' = nops + 1 /\ last'.op = "SetStatus" /\ last'.err = NoErr
       THEN mqtt'.inflight =
               Append(mqtt.inflight,
                      C16_Broadcast(last'.arg[1], last'.arg[2], last'.arg[3], now))
       ELSE mqtt'.inflight = mqtt.inflight
            \/ (mqtt.inflight # <<>> /\ mqtt'.inflight = Tail(mqtt.inflight))]_vars

\* a status request has just published its broadcast, after a connect that
\* set a presence and published nothing
C16_Witness ==
    /\ JustOk("SetStatus")
    /\ Len(mqtt.inflight) = 1
    /\ mqtt.inflight = last.out
    /\ prev # <<>>
    /\ prev[Len(prev)].op = "ClientConnected"

----------------------------------------------------------------------------
(* C17: a run of the reaper never aborts on the failure of one session:    *)
(* while it loops, the sessions it has tried followed by the sessions      *)
(* still to do are the sessions the scan returned, in the order of the     *)
(* scan, whatever the errors of the tried ones; and a run whose scan       *)
(* succeeded ends with every scanned session tried and with the presence   *)
(* sweep called after them.                                                *)

ClientsOf(tried) == [i \in 1..Len(tried) |-> tried[i].client]

C17_RunNeverAborts ==
    /\ reaper.pc = "loop" =>
          ClientsOf(reaper.tried) \o reaper.todo = reaper.scanned
    /\ \A i \in 1..Len(reaper.done) :
          reaper.done[i].scanOk =>
            /\ ClientsOf(reaper.done[i].tried) = reaper.done[i].scanned
            /\ reaper.done[i].swept

\* a finished run of two stale sessions: the first failed, the second was
\* disconnected, the sweep was called
C17_Witness ==
    /\ reaper.pc = "waiting"
    /\ reaper.done # <<>>
    /\ reaper.done[1].scanOk
    /\ reaper.done[1].swept
    /\ Len(reaper.done[1].tried) = 2
    /\ reaper.done[1].tried[1].err # NoErr
    /\ reaper.done[1].tried[2].err = NoErr
    /\ SessionOf(redis, reaper.done[1].tried[2].client).disconnectedAt # Nil

----------------------------------------------------------------------------
(* C18: cancellation of the reaper: a sweep that is in flight when the     *)
(* context is cancelled runs to completion: none of its remaining store    *)
(* operations is refused because of the cancelled context, and the process *)
(* does not end while the sweep is still looping.                          *)

C18_InFlightSweepCompletes ==
    /\ reaper.refused = 0
    /\ ~reaper.cut

\* the rest of the claim: after the cancellation the timer loop returns
C18_LoopReturns ==
    (reaper.ctx = "canceled") ~> (reaper.pc \in {"stopped", "exited"})

----------------------------------------------------------------------------
(* C20: last-writer-wins for a concurrent ClientConnected(c, u) and        *)
(* ClientDisconnected(c): once both handlers have completed, the session   *)
(* record of c, the membership of c in the session index of u and the      *)
(* presence of u are those of one of the two serial orders, connect then   *)
(* disconnect or disconnect then connect, from the state before the two.   *)

ValueIn(space, k) == IF k \in DOMAIN space THEN At(space[k].val) ELSE Nil

View(st, c, u) ==
    [session |-> ValueIn(st.session, c),
     indexed |-> c \in RedisSMembers(st.userSessions, u),
     presence |-> ValueIn(st.presence, u)]

ConnectThenDisconnect(st, c, u, t) ==
    HandleClientDisconnected(HandleClientConnected(st, c, u, t).st, c, t).st

DisconnectThenConnect(st, c, u, t) ==
    HandleClientConnected(HandleClientDisconnected(st, c, t).st, c, u, t).st

RaceOver == race.phase = "racing" /\ race.cpc = "done" /\ race.dpc = "done"

C20_SerialOutcome ==
    RaceOver =>
        View(redis, race.c, race.u) \in
            {View(ConnectThenDisconnect(race.base, race.c, race.u, now), race.c, race.u),
             View(DisconnectThenConnect(race.base, race.c, race.u, now), race.c, race.u)}

----------------------------------------------------------------------------
(* C26: listUserSessions(u) returns only sessions whose owning user is u,  *)
(* and when ClientDisconnected recomputes the presence of u no session of  *)
(* another user counts as a live session of u: a disconnect that leaves u  *)
(* without a connected session of their own sets u offline.  This holds    *)
(* also after a client id was connected for u and later for another user.  *)

C26_OnlyOwnSessions ==
    /\ \A u \in Users : \A s \in listUserSessions(u) : s.user = u
    /\ \A c \in Clients :
          HasSession(redis, c) =>
            LET u == SessionOf(redis, c).user
                r == HandleClientDisconnected(redis, c, now)
            IN  (r.err = NoErr /\ ConnectedOf(r.st, u) = {}) =>
                    StatusIn(r.st, u) = StatusOffline

----------------------------------------------------------------------------
(* C25: session index consistency: between operations, a client id is in   *)
(* the session index of user u if and only if the session record stored    *)
(* under that client id exists, is owned by u and has no disconnect        *)
(* timestamp, after any sequence of connects, disconnects, heartbeats,     *)
(* reaper runs and expiries.                                               *)

Indexed(st, u) == RedisSMembers(st.userSessions, u)

C25_IndexConsistent ==
    \A u \in Users, c \in Clients :
        c \in Indexed(redis, u) <=> c \in ConnectedOf(redis, u)

----------------------------------------------------------------------------
(* C22: the presence sweep changes a presence record only for a user whose *)
(* lastSeen is older than now - timeout, who has no session that is both   *)
(* connected and has a heartbeat newer than the cutoff, and whose status   *)
(* is not already offline; for such a user it sets the status to offline;  *)
(* every other presence record and every session record is left as it was. *)

\* the sessions of u that are connected with a heartbeat after the cutoff
FreshOf(st, u, cutoff) ==
    {c \in ConnectedOf(st, u) : SessionOf(st, c).lastHeartbeat > cutoff}

SweepDue(st, u, timeout, t) ==
    /\ u \in DOMAIN st.presence
    /\ GetUserPresence(st, u, t).err = NoErr
    /\ GetUserPresence(st, u, t).v.lastSeen < t - timeout
    /\ FreshOf(st, u, t - timeout) = {}
    /\ GetUserPresence(st, u, t).v.status # StatusOffline

C22_SweepFrame ==
    LET swept == RepoCleanupStalePresence(redis, offlineTimeout, now)
    IN  /\ swept.session = redis.session
        /\ swept.userSessions = redis.userSessions
        /\ DOMAIN swept.presence = DOMAIN redis.presence
        /\ \A u \in DOMAIN redis.presence :
              IF SweepDue(redis, u, offlineTimeout, now)
              THEN GetUserPresence(swept, u, now).v =
                     [GetUserPresence(redis, u, now).v EXCEPT !.status = StatusOffline]
              ELSE swept.presence[u] = redis.presence[u]

----------------------------------------------------------------------------
(* C27: an explicit setStatus is applied to the store exactly once: the    *)
(* broadcast it publishes on presence/{userId}/status is not consumed by   *)
(* the ingress of the presence service itself, so the delivery of that     *)
(* publication by the broker changes nothing in the store and never        *)
(* overwrites a later presence change with the earlier value.              *)

C27_Delivered ==
    /\ mqtt.inflight # <<>>
    /\ mqtt'.inflight = Tail(mqtt.inflight)
    /\ nops' = nops + 1

C27_BroadcastAppliedOnce ==
    [][C27_Delivered => redis' = redis]_vars

----------------------------------------------------------------------------
(* C28: ClientConnected leaves the store unchanged when it fails: if       *)
(* HandleClientConnected returns a store error, no session record and no   *)
(* session-index entry has been added and the presence of the user is      *)
(* unchanged.                                                              *)

C28_ConnectFailed ==
    /\ nops' = nops + 1
    /\ last'.op = "ClientConnected"
    /\ last'.err # NoErr

C28_FailedConnectNoMutation ==
    [][C28_ConnectFailed => redis' = redis]_vars

----------------------------------------------------------------------------
(* C24: a disconnected session is never resurrected by a heartbeat: once   *)
(* the disconnect of c has completed, the session record of c keeps its    *)
(* disconnect timestamp and the shortened retention that the disconnect    *)
(* gave it, whatever heartbeats for c follow, until a later connect of c   *)
(* replaces the record.                                                    *)

C24_DisconnectedStaysRetired ==
    \A c \in Clients :
        (HasSession(redis, c) /\ SessionOf(redis, c).disconnectedAt # Nil) =>
            redis.session[c].exp =
                At(SessionOf(redis, c).disconnectedAt[1] + disconnectedRetention)

----------------------------------------------------------------------------
(* C23: a reaper sweep that runs concurrently with the handling of events  *)
(* never leaves a freshly connected user offline: for every interleaving   *)
(* of the presence sweep, or of a reaper-driven ClientDisconnected of      *)
(* another stale session of the same user, with ClientConnected(c, u),     *)
(* once both have completed and c is a connected session of u with a fresh *)
(* heartbeat, getPresence(u) is online.                                    *)

SweepRaceOver ==
    /\ race.phase \in {"sweeping", "reaping"}
    /\ race.cpc = "done"
    /\ race.dpc = "done"
    /\ race.spc = "done"

C23_FreshConnectStaysOnline ==
    (SweepRaceOver /\ race.c \in FreshOf(redis, race.u, now - offlineTimeout)) =>
        /\ getPresence(race.u).err = NoErr
        /\ getPresence(race.u).body.status = StatusOnline

----------------------------------------------------------------------------
(* C21: idempotent message handling: processing an incoming message with a *)
(* non-empty dedupe key returns without error and leaves exactly one row   *)
(* for its (conversation, dedupe key); when such a row was there already   *)
(* the table is left as it was, whatever other messages came in between.   *)

Persisted(rows, k, d) == {r \in rows : r.conversation = k /\ r.dedupe = d}

C21_Processed(m) ==
    /\ nops' = nops + 1
    /\ last'.op = "ProcessIncomingMessage"
    /\ last'.arg = <<Marshal(m)>>

C21_IdempotentProcessing ==
    [][\A m \in IncomingMessages :
          (C21_Processed(m) /\ m.dedupe # "") =>
             /\ last'.err = NoErr
             /\ Cardinality(Persisted(messages'.rows, m.conversation, m.dedupe)) = 1
             /\ Persisted(messages.rows, m.conversation, m.dedupe) # {} =>
                    messages'.rows = messages.rows]_vars

\* the same (conversation, dedupe key) came in three times, with another
\* message of the conversation in between, and one row is kept for it
C21_Witness ==
    \E k \in Conversations :
        /\ messages.seen[k, "d1"] = 3
        /\ messages.seen[k, "d2"] = 1
        /\ Cardinality(Persisted(messages.rows, k, "d1")) = 1
        /\ last.op = "ProcessIncomingMessage"
        /\ last.err = NoErr
        /\ Unmarshal(last.arg[1]).v.dedupe = "d1"

----------------------------------------------------------------------------
(* C30: a DM conversation has exactly 2 participants: every successful     *)
(* CreateConversation of type DM yields a conversation with two distinct   *)
(* participants, the creator and one other user, and no AddParticipant or  *)
(* RemoveParticipant makes the number of participants of a DM other than 2.*)

ParticipantsOf(st, k) == {p.user : p \in {q \in st.participants : q.conversation = k}}

C30_DMHasTwoParticipants ==
    \A conv \in chat.conversations :
        conv.type = ConversationTypeDM =>
            /\ Cardinality(ParticipantsOf(chat, conv.id)) = 2
            /\ conv.createdBy \in ParticipantsOf(chat, conv.id)

----------------------------------------------------------------------------
(* C29: attachment updates are not lost under concurrency: for every       *)
(* interleaving of CompleteUpload, the antivirus scan and                  *)
(* AssociateWithMessage on one attachment, once all three have completed   *)
(* the status of the attachment is the verdict of the scan and its message *)
(* id is the one AssociateWithMessage set; GetDownloadURL succeeds exactly *)
(* when the verdict was clean.                                             *)

MediaSettled ==
    /\ media.complete.pc = "done" /\ media.complete.err = NoErr
    /\ media.scan.pc = "done" /\ media.scan.err = NoErr
    /\ media.assoc.pc = "done" /\ media.assoc.err = NoErr

====
